---- MODULE Spec2Model ----
(***************************************************************************)
(* A model of quart_restplus.reqparse: Argument and RequestParser.         *)
(*                                                                         *)
(* Python strings that the code takes apart (names, operators, raw values) *)
(* are sequences of one-character strings; literal pieces of messages are  *)
(* kept as single elements of such a sequence.  Python values are tagged   *)
(* records: [t |-> "str", s |-> characters], [t |-> "int", n |-> number],  *)
(* [t |-> "none"], [t |-> "list", l |-> values].                          *)
(***************************************************************************)
EXTENDS Integers, Sequences, FiniteSets, TLC

VARIABLES
    args,            \* RequestParser.args, an OrderedDict: the Arguments in insertion order
    trim,            \* RequestParser.trim
    store_missing,   \* RequestParser.store_missing
    bundle_errors,   \* RequestParser.bundle_errors
    BUNDLE_ERRORS,   \* current_app.config['BUNDLE_ERRORS']
    pc,              \* position of the parse_args call: "idle", "loop", "done"
    req,             \* the request handed to parse_args
    strict,          \* the strict parameter of parse_args
    idx,             \* 1-based position of the for loop over self.args.values()
    result,          \* the result container being filled: sequence of <<key, value>>
    errors,          \* the errors dict of parse_args: sequence of <<name, message>>
    unparsed,        \* req.unparsed_arguments: its keys, in dict order
    outcome,         \* how the parse_args call ended
    resolved,        \* names of the arguments whose source was resolved in this call, in order,
                     \* after the start and the end of each location resolved on its own
    converted,       \* names of the arguments whose converter was invoked in this call
    returns,         \* what Argument.parse returned for each argument parsed in this call
    raised,          \* the exception the last call on the parser raised, "none" when none
    parser_copy,     \* the other parser: the one copy() returned, or the original
    aliased,         \* names whose Argument is one object in both parsers
    on_copy,         \* whether the calls are made on the parser copy() returned
    derived,         \* what the last derivations of the schema gave, since the arguments last changed
    parse_result,    \* a ParseResult: its entries, sequence of <<key, value>>
    got,             \* what the last read of the ParseResult gave
    conversion,      \* the last call of Argument.convert: its input and what it gave
    suspended,       \* the locals of the parse_args call that is suspended
    declared         \* the arguments as they were declared, for parsers given at the start

(* the suspended call and the declared arguments *)
taskVars == <<suspended, declared>>

(* the variables of the ParseResult and of the lone call of convert *)
otherVars == <<parse_result, got, conversion, taskVars>>

vars == <<args, trim, store_missing, bundle_errors, BUNDLE_ERRORS, pc, req, strict,
          idx, result, errors, unparsed, outcome, resolved, converted, returns,
          raised, parser_copy, aliased, on_copy, derived, otherVars>>

copyVars == <<parser_copy, aliased, on_copy>>

parserVars == <<args, trim, store_missing, bundle_errors, BUNDLE_ERRORS>>

-----------------------------------------------------------------------------
(* F(x) with x evaluated once: TLC evaluates the argument of an operator   *)
(* each time the operator's body uses it, a bound variable only once       *)
Then(x, F(_)) == CHOOSE y \in {F(v) : v \in {x}} : TRUE

(* Python values *)

None == [t |-> "none"]
Str(s) == [t |-> "str", s |-> s]
Int_(n) == [t |-> "int", n |-> n]
List(l) == [t |-> "list", l |-> l]
Callable(r) == [t |-> "callable", r |-> r]
Error(m) == [t |-> "ValueError", e |-> m]
Bool(b) == [t |-> "bool", b |-> b]

(* str.lower(), on the letters the requests of this model use *)
LowerChar(c) ==
    CASE c = "A" -> "a"
      [] c = "B" -> "b"
      [] c = "R" -> "r"
      [] c = "T" -> "t"
      [] OTHER -> c

lower(s) == [k \in 1..Len(s) |-> LowerChar(s[k])]

IsSpace(c) == c = " "

RECURSIVE lstrip(_)
lstrip(s) == IF s # <<>> /\ IsSpace(Head(s)) THEN lstrip(Tail(s)) ELSE s

RECURSIVE rstrip(_)
rstrip(s) ==
    IF s # <<>> /\ IsSpace(s[Len(s)]) THEN rstrip(SubSeq(s, 1, Len(s) - 1)) ELSE s

(* str.strip() *)
strip(s) == rstrip(lstrip(s))

SPLIT_CHAR == ","

(* str.split(sep): the pieces between the separators, empty pieces included *)
RECURSIVE split(_, _)
split(s, sep) ==
    IF \A k \in 1..Len(s) : s[k] # sep
    THEN <<s>>
    ELSE LET k == CHOOSE j \in 1..Len(s) :
                      s[j] = sep /\ \A h \in 1..(j - 1) : s[h] # sep
         IN  <<SubSeq(s, 1, k - 1)>> \o split(SubSeq(s, k + 1, Len(s)), sep)

(* str.replace(old, '', 1) for a one-character old: drop its first occurrence *)
RemoveFirst(s, c) ==
    IF \A k \in 1..Len(s) : s[k] # c
    THEN s
    ELSE LET k == CHOOSE j \in 1..Len(s) :
                      s[j] = c /\ \A h \in 1..(j - 1) : s[h] # c
         IN  SubSeq(s, 1, k - 1) \o SubSeq(s, k + 1, Len(s))

Digits == <<"0", "1", "2", "3", "4", "5", "6", "7", "8", "9">>

IsDigit(c) == \E d \in 1..10 : Digits[d] = c

DigitVal(c) == (CHOOSE d \in 1..10 : Digits[d] = c) - 1

RECURSIVE DecimalVal(_)
DecimalVal(s) ==
    IF s = <<>> THEN 0
    ELSE 10 * DecimalVal(SubSeq(s, 1, Len(s) - 1)) + DigitVal(s[Len(s)])

RECURSIVE DecimalStr(_)
DecimalStr(n) ==
    IF n < 10 THEN <<Digits[n + 1]>>
    ELSE DecimalStr(n \div 10) \o <<Digits[(n % 10) + 1]>>

(* repr(value): how a value shows inside the text of a list *)
repr(val) ==
    CASE val.t = "str" -> <<"'">> \o val.s \o <<"'">>
      [] val.t = "int" -> DecimalStr(val.n)
      [] val.t = "none" -> <<"None">>
      [] val.t = "bool" -> IF val.b THEN <<"T", "r", "u", "e">> ELSE <<"F", "a", "l", "s", "e">>
      [] OTHER -> <<"<object>">>

RECURSIVE JoinReprs(_)
JoinReprs(l) ==
    IF l = <<>> THEN <<>>
    ELSE IF Len(l) = 1 THEN repr(l[1])
    ELSE repr(l[1]) \o <<", ">> \o JoinReprs(Tail(l))

(* str(value), as used in messages and by the str converter *)
text(val) ==
    CASE val.t = "str" -> val.s
      [] val.t = "int" -> DecimalStr(val.n)
      [] val.t = "none" -> <<"None">>
      [] val.t = "bool" -> IF val.b THEN <<"T", "r", "u", "e">> ELSE <<"F", "a", "l", "s", "e">>
      [] val.t = "list" -> <<"[">> \o JoinReprs(val.l) \o <<"]">>
      [] OTHER -> <<"<object>">>

(* Python truthiness of a value *)
Truthy(val) ==
    CASE val.t = "none" -> FALSE
      [] val.t = "str" -> val.s # <<>>
      [] val.t = "int" -> val.n # 0
      [] val.t = "list" -> val.l # <<>>
      [] val.t = "bool" -> val.b
      [] OTHER -> TRUE

-----------------------------------------------------------------------------
(* Multi-valued mappings: sequences of <<key, value>> items *)

Keys(items) == {items[k][1] : k \in 1..Len(items)}

(* MultiDict.getlist(key): every value under the key, in item order *)
RECURSIVE getlist(_, _)
getlist(items, key) ==
    IF items = <<>> THEN <<>>
    ELSE (IF Head(items)[1] = key THEN <<Head(items)[2]>> ELSE <<>>)
         \o getlist(Tail(items), key)

(* the keys of dict(items), in dict order: each key once, at its first place *)
RECURSIVE DictKeys(_)
DictKeys(items) ==
    IF items = <<>> THEN <<>>
    ELSE LET front == DictKeys(SubSeq(items, 1, Len(items) - 1))
             key == items[Len(items)][1]
         IN  IF \E k \in 1..Len(front) : front[k] = key THEN front
             ELSE Append(front, key)

(* dict.pop(key) on the keys of a dict *)
DictPop(keys, key) == SelectSeq(keys, LAMBDA k : k # key)

(* d[key] = value on an ordered dict kept as items *)
DictSet(items, key, value) ==
    IF key \in Keys(items)
    THEN [k \in 1..Len(items) |->
             IF items[k][1] = key THEN <<key, value>> ELSE items[k]]
    ELSE Append(items, <<key, value>>)

(* d.update(other) on an ordered dict kept as items *)
RECURSIVE DictUpdate(_, _)
DictUpdate(items, other) ==
    IF other = <<>> THEN items
    ELSE Then(DictSet(items, Head(other)[1], Head(other)[2]),
              LAMBDA updated : DictUpdate(updated, Tail(other)))

(* a slip: the values of other are added to the values already held *)
MultiDictUpdate_extending(items, other) == items \o other

(* MultiDict.update(other): the values of other replace, key by key, the   *)
(* values already held; keys of other that are new are added at the end.   *)
MultiDictUpdate(items, other) ==
    LET kept == SelectSeq(items, LAMBDA it : it[1] \notin Keys(other))
        firstAt(key) == CHOOSE k \in 1..Len(items) :
                            items[k][1] = key
                            /\ \A h \in 1..(k - 1) : items[h][1] # key
        \* the values of an old key take the place of its first item
        inPlace == [k \in 1..Len(items) |->
                       IF items[k][1] \in Keys(other)
                       THEN IF firstAt(items[k][1]) = k
                            THEN [j \in 1..Len(getlist(other, items[k][1])) |->
                                     <<items[k][1], getlist(other, items[k][1])[j]>>]
                            ELSE <<>>
                       ELSE <<items[k]>>]
        flat[k \in 0..Len(items)] ==
            IF k = 0 THEN <<>> ELSE flat[k - 1] \o inPlace[k]
        fresh == SelectSeq(other, LAMBDA it : it[1] \notin Keys(items))
    IN  IF kept = items THEN items \o other ELSE flat[Len(items)] \o fresh

-----------------------------------------------------------------------------
(* Argument *)

_friendly_location(loc) ==
    CASE loc = "json" -> "the JSON body"
      [] loc = "form" -> "the post body"
      [] loc = "args" -> "the query string"
      [] loc = "values" -> "the post body or the query string"
      [] loc = "headers" -> "the HTTP headers"
      [] loc = "cookies" -> "the request's cookies"
      [] loc = "files" -> "an uploaded file"
      [] OTHER -> loc

(* a location given as one string, and one given as a list or tuple *)
OneLocation(tag) == [single |-> TRUE, tags |-> <<tag>>, list |-> FALSE]
Locations(tags) == [single |-> FALSE, tags |-> tags, list |-> TRUE]

(* the default, a tuple: what sets it apart from a list is that it hashes *)
DefaultLocation == [single |-> FALSE, tags |-> <<"json", "values">>, list |-> FALSE]

Opt(kwargs, field, default) ==
    IF field \in DOMAIN kwargs THEN kwargs[field] ELSE default

(* Argument.__init__(name, **kwargs) *)
Argument(name, kwargs) ==
    [name           |-> name,
     default        |-> Opt(kwargs, "default", None),
     dest           |-> Opt(kwargs, "dest", None),
     required       |-> Opt(kwargs, "required", FALSE),
     ignore         |-> Opt(kwargs, "ignore", FALSE),
     type           |-> Opt(kwargs, "type", "str"),
     location       |-> Opt(kwargs, "location", DefaultLocation),
     choices        |-> Opt(kwargs, "choices", <<>>),
     action         |-> Opt(kwargs, "action", "store"),
     help           |-> Opt(kwargs, "help", None),
     operators      |-> Opt(kwargs, "operators", << <<"=">> >>),
     case_sensitive |-> Opt(kwargs, "case_sensitive", TRUE),
     store_missing  |-> Opt(kwargs, "store_missing", TRUE),
     trim           |-> Opt(kwargs, "trim", FALSE),
     nullable       |-> Opt(kwargs, "nullable", TRUE)]

(* getattr(req, tag, ...) with the call and the await already done: the    *)
(* items of the location, or nothing when the request has no such          *)
(* attribute or the attribute is None                                      *)
Absent == [some |-> FALSE, items |-> <<>>]
Present(items) == [some |-> TRUE, items |-> items]

getattr(r, tag) == IF tag \in DOMAIN r THEN r[tag] ELSE Absent

(* Argument.source: the multi-valued mapping the argument reads *)
RECURSIVE MergeLocations(_, _, _)
MergeLocations(r, tags, values) ==
    IF tags = <<>> THEN values
    ELSE LET value == getattr(r, Head(tags))
         IN  Then(IF value.some THEN MultiDictUpdate(values, value.items) ELSE values,
                  LAMBDA merged : MergeLocations(r, Tail(tags), merged))

source(arg, r) ==
    IF arg.location.single
    THEN LET value == getattr(r, arg.location.tags[1])
         IN  IF value.some THEN value.items ELSE <<>>
    ELSE MergeLocations(r, arg.location.tags, <<>>)

(* the built-in converters called with one argument: str(value), int(value) *)
IntLiteral(s) == strip(s) # <<>> /\ \A k \in 1..Len(strip(s)) : IsDigit(strip(s)[k])

Raised(msg) == [ok |-> FALSE, val |-> None, msg |-> msg]
Returned(val) == [ok |-> TRUE, val |-> val, msg |-> <<>>]

CallType(type, value) ==
    CASE type = "str" -> Returned(Str(text(value)))
      [] type = "int" ->
            IF value.t = "int" THEN Returned(value)
            ELSE IF value.t = "bool" THEN Returned(Int_(IF value.b THEN 1 ELSE 0))
            ELSE IF value.t = "str" /\ IntLiteral(value.s)
                 THEN Returned(Int_(DecimalVal(strip(value.s))))
            ELSE IF value.t = "str"
                 THEN Raised(<<"invalid literal for int() with base 10: ">>
                             \o repr(value))
            ELSE Raised(<<"int() argument must be a string, a bytes-like object",
                          " or a number, not '", value.t, "'">>)

(* The converters that are functions: the number of positional arguments  *)
(* each takes (0 when it takes any number) and what its body does          *)
Converters ==
    [mock     |-> [takes |-> 0, does |-> "return"],
     by_name  |-> [takes |-> 2, does |-> "return"],
     positive |-> [takes |-> 1, does |-> "ValueError"],
     checked  |-> [takes |-> 3, does |-> "ValueError"],
     strict   |-> [takes |-> 3, does |-> "TypeError"],
     variadic |-> [takes |-> 0, does |-> "TypeError"]]

(* the converter can be called with n positional arguments; str and int    *)
(* take (value) only: their second and third arguments are an encoding or  *)
(* a base, which a name and an operator are not                            *)
Accepts(type, n) ==
    IF type \in DOMAIN Converters
    THEN Converters[type].takes \in {0, n}
    ELSE n = 1

Numeral == <<"1", "2", "3">>

(* the text of the TypeError of a call with n arguments that is not        *)
(* accepted                                                                *)
NotAccepted(type, n) ==
    IF type \notin DOMAIN Converters
    THEN <<type, "() called with ", Numeral[n], " arguments">>
    ELSE IF n > Converters[type].takes
    THEN <<type, "() takes ", Numeral[Converters[type].takes],
           " positional arguments but ", Numeral[n], " were given">>
    ELSE <<type, "() missing ", Numeral[Converters[type].takes - n],
           " required positional arguments">>

(* the text of the exception the body of a converter raises *)
OwnError(type) == <<type, " does not like the value">>

(* self.type(...) with the arguments of call: what it gives, the       *)
(* exception it raises, and whether the body of the converter ran      *)
Call(type, call) ==
    IF ~Accepts(type, Len(call))
    THEN [ok |-> FALSE, val |-> None, msg |-> NotAccepted(type, Len(call)),
          exc |-> "TypeError", ran |-> FALSE, shape |-> Len(call)]
    ELSE IF type \in DOMAIN Converters
    THEN IF Converters[type].does = "return"
         THEN [ok |-> TRUE, val |-> call[1], msg |-> <<>>,
               exc |-> "none", ran |-> TRUE, shape |-> Len(call)]
         ELSE [ok |-> FALSE, val |-> None, msg |-> OwnError(type),
               exc |-> Converters[type].does, ran |-> TRUE, shape |-> Len(call)]
    ELSE LET made == CallType(type, call[1])
         IN  [ok |-> made.ok, val |-> made.val, msg |-> made.msg,
              exc |-> IF made.ok THEN "none"
                      ELSE IF call[1].t = "str" THEN "ValueError" ELSE "TypeError",
              ran |-> TRUE, shape |-> Len(call)]

(* a slip: the call with (value, name, op) decides *)
CallChain_first_only(type, value, name, op) ==
    << Call(type, <<value, Str(name), Str(op)>>) >>

(* lines 162-175: the calls convert makes, each after a TypeError of the   *)
(* one before                                                              *)
CallChain(type, value, name, op) ==
    Then(Call(type, <<value, Str(name), Str(op)>>), LAMBDA three :
        IF three.exc # "TypeError" THEN <<three>>
        ELSE Then(Call(type, <<value, Str(name)>>), LAMBDA two :
                 IF two.exc # "TypeError" THEN <<three, two>>
                 ELSE <<three, two, Call(type, <<value>>)>>))

(* Argument.convert *)
convert(arg, value, op) ==
    IF value.t = "none"
    THEN IF ~arg.nullable THEN Raised(<<"Must not be null!">>) ELSE Returned(None)
    ELSE Then(CallChain(arg.type, value, arg.name, op), LAMBDA calls :
             [ok |-> calls[Len(calls)].ok, val |-> calls[Len(calls)].val,
              msg |-> calls[Len(calls)].msg])

(* abort(code, message, errors=errors): the 400 failure carrying the errors *)
abort(code, message, errs) ==
    [kind |-> "abort", status |-> code, message |-> message, errors |-> errs]

(* a slip: the error is handed back to the caller even when not bundling *)
handle_validation_error_no_abort(arg, error, bundle) ==
    LET error_msg == IF Truthy(arg.help) THEN text(arg.help) \o <<" ">> \o error
                     ELSE error
    IN  [kind |-> "return", value |-> Error(error),
         found |-> [t |-> "dict", d |-> << <<arg.name, error_msg>> >>]]

(* Argument.handle_validation_error: what parse returns, or the abort *)
handle_validation_error(arg, error, bundle) ==
    LET error_str == error
        error_msg == IF Truthy(arg.help) THEN text(arg.help) \o <<" ">> \o error_str
                     ELSE error_str
        errs == << <<arg.name, error_msg>> >>
    IN  IF bundle
        THEN [kind |-> "return", value |-> Error(error),
              found |-> [t |-> "dict", d |-> errs]]
        ELSE abort(400, "Input payload validation failed", errs)

_not_found == [t |-> "bool", b |-> FALSE]
_found == [t |-> "bool", b |-> TRUE]

(* lines 224-227: the raw value after trim and case folding *)
prepare(arg, raw) ==
    LET trimmed == IF raw.t = "str" /\ arg.trim THEN Str(strip(raw.s)) ELSE raw
    IN  IF trimmed.t = "str" /\ ~arg.case_sensitive THEN Str(lower(trimmed.s))
        ELSE trimmed

(* a slip: the choices are lost when they are folded *)
fold_choices_dropped(arg, raw, choices) ==
    IF raw.t = "str" /\ ~arg.case_sensitive THEN <<>> ELSE choices

(* a slip: the value is lowercased, the choices are not *)
fold_choices_unchanged(arg, raw, choices) == choices

(* lines 226-230: self.choices after a value went through the folding *)
fold_choices(arg, raw, choices) ==
    IF raw.t = "str" /\ ~arg.case_sensitive
    THEN [k \in 1..Len(choices) |-> Str(lower(choices[k].s))]
    ELSE choices

(* a slip: the value of a 'split' argument is converted in one piece *)
coerce_unsplit(arg, value, operator) ==
    IF arg.action = "split"
    THEN LET c == convert(arg, value, operator)
         IN  IF c.ok THEN Returned(List(<<c.val>>)) ELSE c
    ELSE convert(arg, value, operator)

(* lines 233-236: the value coerced, or every part of it for 'split' *)
coerce(arg, value, operator) ==
    IF arg.action = "split"
    THEN IF value.t # "str"
         THEN Raised(<<"'", value.t, "' object has no attribute 'split'">>)
         ELSE LET parts == split(value.s, SPLIT_CHAR)
                  cs == [k \in 1..Len(parts) |-> convert(arg, Str(parts[k]), operator)]
                  bad == {k \in 1..Len(parts) : ~cs[k].ok}
              IN  IF bad = {}
                  THEN Returned(List([k \in 1..Len(parts) |-> cs[k].val]))
                  ELSE cs[CHOOSE k \in bad : \A h \in bad : k <= h]
    ELSE convert(arg, value, operator)

(* line 242: self.choices and value not in self.choices *)
not_a_choice(choices, value) ==
    choices # <<>> /\ ~\E k \in 1..Len(choices) : choices[k] = value

(* a slip: ignore is not consulted when the conversion fails *)
ParseValue_ignore_unused(arg, operator, name, raw, bundle, st) ==
    LET value == prepare(arg, raw)
        choices == fold_choices(arg, raw, st.choices)
        conv == coerce(arg, value, operator)
        st1 == [st EXCEPT !.choices = choices,
                          !.converted = @ \/ arg.action # "split" \/ value.t = "str"]
    IN  IF ~conv.ok
        THEN [st1 EXCEPT !.returned = TRUE,
                         !.ret = handle_validation_error(arg, conv.msg, bundle)]
        ELSE IF not_a_choice(choices, conv.val)
        THEN [st1 EXCEPT !.returned = TRUE,
                         !.ret = handle_validation_error(arg,
                                    <<"The value '">> \o text(conv.val)
                                    \o <<"' is not a valid choice for '">>
                                    \o name \o <<"'.">>, bundle)]
        ELSE [st1 EXCEPT !.unparsed = DictPop(st.unparsed, name),
                         !.results = Append(st.results, conv.val)]

(* the body of the loop over values, lines 223-250: st is the state of the *)
(* loops (results, self.choices, req.unparsed_arguments, whether parse has *)
(* returned and what)                                                      *)
ParseValue(arg, operator, name, raw, bundle, st) ==
    LET value == prepare(arg, raw)
        choices == fold_choices(arg, raw, st.choices)
        conv == coerce(arg, value, operator)
        st1 == [st EXCEPT !.choices = choices,
                          !.converted = @ \/ arg.action # "split" \/ value.t = "str"]
    IN  IF ~conv.ok
        THEN IF arg.ignore THEN st1
             ELSE [st1 EXCEPT !.returned = TRUE,
                              !.ret = handle_validation_error(arg, conv.msg, bundle)]
        ELSE IF not_a_choice(choices, conv.val)
        THEN [st1 EXCEPT !.returned = TRUE,
                         !.ret = handle_validation_error(arg,
                                    <<"The value '">> \o text(conv.val)
                                    \o <<"' is not a valid choice for '">>
                                    \o name \o <<"'.">>, bundle)]
        ELSE [st1 EXCEPT !.unparsed = DictPop(st.unparsed, name),
                         !.results = Append(st.results, conv.val)]

RECURSIVE ParseValues(_, _, _, _, _, _)
ParseValues(arg, operator, name, values, bundle, st) ==
    IF values = <<>> \/ st.returned THEN st
    ELSE Then(ParseValue(arg, operator, name, Head(values), bundle, st),
              LAMBDA st1 : ParseValues(arg, operator, name, Tail(values), bundle, st1))

(* the loop over self.operators, lines 214-250 *)
LookupKey(arg, operator) == arg.name \o RemoveFirst(operator, "=")

(* a slip: the operators are gone through from the last to the first *)
RECURSIVE ParseOperators_reversed(_, _, _, _, _)
ParseOperators_reversed(arg, operators, src, bundle, st) ==
    IF operators = <<>> \/ st.returned THEN st
    ELSE LET last == operators[Len(operators)]
             name == LookupKey(arg, last)
         IN  Then(IF name \in Keys(src)
                  THEN ParseValues(arg, last, name, getlist(src, name), bundle, st)
                  ELSE st,
                  LAMBDA st1 : ParseOperators_reversed(arg,
                                   SubSeq(operators, 1, Len(operators) - 1),
                                   src, bundle, st1))

RECURSIVE ParseOperators(_, _, _, _, _)
ParseOperators(arg, operators, src, bundle, st) ==
    IF operators = <<>> \/ st.returned THEN st
    ELSE LET name == LookupKey(arg, Head(operators))
         IN  Then(IF name \in Keys(src)
                  THEN ParseValues(arg, Head(operators), name,
                                   getlist(src, name), bundle, st)
                  ELSE st,
                  LAMBDA st1 : ParseOperators(arg, Tail(operators), src, bundle, st1))

(* a slip: only the first location is named *)
MissingLocation_first(arg) == <<_friendly_location(arg.location.tags[1])>>

(* lines 253-258: the friendly names of the locations, joined with ' or ' *)
MissingLocation(arg) ==
    IF arg.location.single
    THEN <<_friendly_location(arg.location.tags[1])>>
    ELSE LET locations == [k \in 1..Len(arg.location.tags) |->
                              _friendly_location(arg.location.tags[k])]
             joined[k \in 1..Len(locations)] ==
                 IF k = 1 THEN <<locations[1]>>
                 ELSE joined[k - 1] \o <<" or ", locations[k]>>
         IN  IF locations = <<>> THEN <<>> ELSE joined[Len(locations)]

(* a slip: 'append' wraps the default in a list *)
default_value_wrapped(arg) ==
    LET default == IF arg.default.t = "callable" THEN arg.default.r ELSE arg.default
    IN  IF arg.action = "append" THEN List(<<default>>) ELSE default

(* lines 262-265: the default, called when it is callable *)
default_value(arg) == IF arg.default.t = "callable" THEN arg.default.r ELSE arg.default

(* a slip: 'store' is not told apart from the other actions *)
found_value_list(arg, results) ==
    IF arg.action = "append" THEN List(results)
    ELSE IF Len(results) = 1 THEN results[1]
    ELSE List(results)

(* a slip: 'store' keeps the last result *)
found_value_last(arg, results) ==
    IF arg.action = "append" THEN List(results)
    ELSE IF arg.action = "store" \/ Len(results) = 1 THEN results[Len(results)]
    ELSE List(results)

(* lines 267-272: the value returned for the accumulated results *)
found_value(arg, results) ==
    IF arg.action = "append" THEN List(results)
    ELSE IF arg.action = "store" \/ Len(results) = 1 THEN results[1]
    ELSE List(results)

(* a slip: the app-level flag is not consulted *)
bundling_parser_only(app_bundle, bundle_arg) == bundle_arg

(* line 205: whether the errors are bundled *)
bundling(app_bundle, bundle_arg) == app_bundle \/ bundle_arg

(* Argument.parse(req, bundle_errors): .ret is what the call returns or    *)
(* the abort it raises, .choices and .unparsed what it leaves in           *)
(* self.choices and req.unparsed_arguments                                 *)
ParseEnd(arg, bundle, st) ==
    IF st.returned THEN st
    ELSE IF st.results = <<>> /\ arg.required
    THEN [st EXCEPT !.ret = handle_validation_error(arg,
                               <<"Missing required parameter in ">>
                               \o MissingLocation(arg), bundle)]
    ELSE IF st.results = <<>>
    THEN [st EXCEPT !.ret = [kind |-> "return", value |-> default_value(arg),
                             found |-> _not_found]]
    ELSE [st EXCEPT !.ret = [kind |-> "return",
                             value |-> found_value(arg, st.results),
                             found |-> _found]]

parse(arg, r, unparsedKeys, app_bundle, bundle_arg) ==
    LET bundle == bundling(app_bundle, bundle_arg)
        st0 == [results |-> <<>>, choices |-> arg.choices, unparsed |-> unparsedKeys,
                returned |-> FALSE, ret |-> [kind |-> "none"], converted |-> FALSE]
    IN  Then(source(arg, r),
             LAMBDA src :
                 Then(ParseOperators(arg, arg.operators, src, bundle, st0),
                      LAMBDA st : ParseEnd(arg, bundle, st)))

-----------------------------------------------------------------------------
(* The declarations and requests the model draws from *)

foo == <<"f", "o", "o">>
bar == <<"b", "a", "r">>
baz == <<"b", "a", "z">>
bat == <<"b", "a", "t">>
BAT == <<"B", "A", "T">>

EQ == <<"=">>
GE == <<">", "=">>
LE == <<"<", "=">>

NoKwargs == [k \in {} |-> None]

(* keyword arguments of add_argument('foo', ...) *)
FooKwargs ==
    { NoKwargs,
      [required |-> TRUE, location |-> OneLocation("values")],
      [type |-> "int"],
      [type |-> "int", ignore |-> TRUE, action |-> "append"],
      [type |-> "int", ignore |-> TRUE],
      [type |-> "int", ignore |-> TRUE, required |-> TRUE],
      [action |-> "append", operators |-> <<GE, LE>>],
      [operators |-> <<LE, EQ>>],
      [action |-> "append", operators |-> <<LE, EQ>>, default |-> Str(bar)],
      [choices |-> <<Str(bat)>>],
      [choices |-> <<Str(BAT)>>, case_sensitive |-> FALSE],
      [type |-> "int", choices |-> <<Int_(1), Int_(2)>>, location |-> OneLocation("json"),
       ignore |-> TRUE],
      [action |-> "split", type |-> "int"],
      [action |-> "split"],
      [default |-> Callable(Str(bar)), dest |-> Str(bat), trim |-> TRUE],
      [store_missing |-> FALSE, required |-> TRUE, location |-> OneLocation("headers")] }

(* keyword arguments of add_argument('bar', ...) *)
BarKwargs ==
    { NoKwargs,
      [required |-> TRUE, location |-> Locations(<<"values", "cookies">>)],
      [type |-> "int", store_missing |-> FALSE],
      [dest |-> Str(foo), action |-> "append"] }

(* keyword arguments of add_argument('baz', ...) *)
BazKwargs ==
    { [required |-> TRUE, help |-> Str(<<"Bad baz.">>)],
      [default |-> Int_(0), choices |-> <<Str(bat), Str(bar)>>] }

Declarations ==
    ({foo} \X FooKwargs) \cup ({bar} \X BarKwargs) \cup ({baz} \X BazKwargs)

Request(json, values, headers, cookies) ==
    [json |-> json, values |-> values, headers |-> headers, cookies |-> cookies]

Query(items) == Request(Absent, Present(items), Present(<<>>), Present(<<>>))

(* the requests: query strings, a JSON body, headers and cookies.  A query *)
(* string foo>=bar arrives as the key "foo>" with the value "bar".         *)
Requests ==
    { Query(<<>>),
      Query(<< <<foo, Str(bar)>>, <<foo, Str(bat)>> >>),
      Query(<< <<foo, Str(BAT)>>, <<baz, Str(bat)>> >>),
      Query(<< <<foo \o <<"<">>, Str(bat)>>, <<foo \o <<">">>, Str(bar)>>,
               <<foo, Str(foo)>> >>),
      Query(<< <<foo \o <<"<">>, Str(bar)>> >>),
      Query(<< <<foo, Str(<<"1", ",", "2">>)>>, <<bar, Str(<<" ", "7", " ">>)>> >>),
      Query(<< <<foo, Str(<<"1">>)>>, <<bar, Str(<<"b", "e", "e", "s">>)>>,
               <<<<"n">>, Str(<<"2", "2">>)>> >>),
      Request(Present(<< <<foo, Int_(5)>>, <<baz, None>> >>),
              Present(<< <<bar, Str(<<"3">>)>> >>), Present(<<>>), Present(<<>>)),
      Request(Present(<< <<foo, Int_(2)>> >>),
              Present(<< <<foo, Str(bat)>>, <<bar, Str(bar)>>, <<foo, Str(<<"1">>)>> >>),
              Present(<< <<foo, Str(bar)>> >>),
              Present(<< <<bar, Str(<<"4">>)>> >>)),
      Request(Absent, Present(<< <<foo, Str(bat)>> >>),
              Present(<< <<foo, Str(bar)>>, <<bar, Str(bar)>> >>), Present(<<>>)) }

(* keyword arguments of RequestParser(...) *)
ParserKwargs ==
    { NoKwargs, [trim |-> TRUE], [store_missing |-> FALSE], [bundle_errors |-> TRUE] }

(* the parsers the model starts from: the keyword arguments of the parser  *)
(* and the BUNDLE_ERRORS setting of the application                        *)
Configurations ==
    {[kwargs |-> kwargs, BUNDLE_ERRORS |-> FALSE] : kwargs \in ParserKwargs}
    \cup {[kwargs |-> NoKwargs, BUNDLE_ERRORS |-> TRUE]}

(* the most arguments a parser is given *)
MaxArgs == 2

-----------------------------------------------------------------------------
(* RequestParser *)

NoOutcome == [kind |-> "none"]

(* the locals of a parse_args call that is not running *)
NoCall ==
    /\ req = Query(<<>>)
    /\ strict = FALSE
    /\ idx = 0
    /\ result = <<>>
    /\ errors = <<>>
    /\ unparsed = <<>>
    /\ outcome = NoOutcome
    /\ resolved = <<>>
    /\ converted = {}
    /\ returns = <<>>

(* no other parser yet *)
(* a parse_args call that is not running, as the locals of a call *)
NoTask ==
    [pc |-> "idle", req |-> Query(<<>>), strict |-> FALSE, idx |-> 0, result |-> <<>>,
     errors |-> <<>>, unparsed |-> <<>>, outcome |-> NoOutcome, resolved |-> <<>>,
     converted |-> {}, returns |-> <<>>]

NoParser ==
    [made |-> FALSE, args |-> <<>>, trim |-> FALSE, store_missing |-> TRUE,
     bundle_errors |-> FALSE]

(* RequestParser.__init__(trim=..., store_missing=..., bundle_errors=...) *)
Init ==
    /\ args = <<>>
    /\ \E config \in Configurations :
          /\ trim = Opt(config.kwargs, "trim", FALSE)
          /\ store_missing = Opt(config.kwargs, "store_missing", TRUE)
          /\ bundle_errors = Opt(config.kwargs, "bundle_errors", FALSE)
          /\ BUNDLE_ERRORS = config.BUNDLE_ERRORS
    /\ pc = "idle"
    /\ NoCall
    /\ raised = "none"
    /\ parser_copy = NoParser
    /\ aliased = {}
    /\ on_copy = FALSE
    /\ derived = <<>>
    /\ parse_result = <<>>
    /\ got = [kind |-> "none"]
    /\ conversion = [kind |-> "none"]
    /\ suspended = NoTask
    /\ declared = <<>>

ArgNames == {args[k].name : k \in 1..Len(args)}

(* RequestParser._init_argument(arg, kwargs) *)
_init_argument(arg, kwargs) ==
    LET trimmed == IF trim THEN [arg EXCEPT !.trim = Opt(kwargs, "trim", trim)]
                   ELSE arg
    IN  IF ~store_missing
        THEN [trimmed EXCEPT !.store_missing =
                                 Opt(kwargs, "store_missing", store_missing)]
        ELSE trimmed

(* a slip: the name is not looked up before the argument is registered *)
add_argument_unchecked(name, kwargs, prebuilt) ==
    /\ pc = "idle"
    /\ Len(args) < MaxArgs
    /\ raised' = "none"
    /\ args' = Append(args, _init_argument(Argument(name, kwargs),
                                           IF prebuilt THEN NoKwargs ELSE kwargs))
    /\ derived' = <<>>
    /\ UNCHANGED <<trim, store_missing, bundle_errors, BUNDLE_ERRORS, pc, req, strict,
                   idx, result, errors, unparsed, outcome, resolved, converted, returns,
                   copyVars, otherVars>>

(* RequestParser.add_argument(name, **kwargs), and add_argument(Argument(  *)
(* name, **kwargs)) when prebuilt: then add_argument itself gets no kwargs *)
add_argument(name, kwargs, prebuilt) ==
    /\ pc = "idle"
    /\ Len(args) < MaxArgs
    /\ LET arg == Argument(name, kwargs)
       IN  IF arg.name \in ArgNames
           THEN /\ raised' = "DuplicateArgumentError"
                /\ UNCHANGED args
           ELSE /\ raised' = "none"
                /\ args' = Append(args,
                              _init_argument(arg, IF prebuilt THEN NoKwargs ELSE kwargs))
    /\ derived' = <<>>
    /\ UNCHANGED <<trim, store_missing, bundle_errors, BUNDLE_ERRORS, pc, req, strict,
                   idx, result, errors, unparsed, outcome, resolved, converted, returns,
                   copyVars, otherVars>>

(* the position of the argument of that name in self.args *)
Position(name) == CHOOSE k \in 1..Len(args) : args[k].name = name

(* a slip: the old argument is deleted and the new one goes to the end *)
replace_argument_moving(name, kwargs) ==
    /\ pc = "idle"
    /\ IF name \notin ArgNames
       THEN /\ raised' = "ArgumentDoesNotExist"
            /\ UNCHANGED <<args, aliased>>
       ELSE /\ raised' = "none"
            /\ args' = Append(SelectSeq(args, LAMBDA arg : arg.name # name),
                              _init_argument(Argument(name, kwargs), kwargs))
            /\ aliased' = aliased \ {name}
    /\ derived' = <<>>
    /\ UNCHANGED <<trim, store_missing, bundle_errors, BUNDLE_ERRORS, pc, req, strict,
                   idx, result, errors, unparsed, outcome, resolved, converted, returns,
                   parser_copy, on_copy, otherVars>>

(* RequestParser.replace_argument(name, **kwargs): the new argument takes  *)
(* the place of the old one in the ordered dict                            *)
replace_argument(name, kwargs) ==
    /\ pc = "idle"
    /\ IF name \notin ArgNames
       THEN /\ raised' = "ArgumentDoesNotExist"
            /\ UNCHANGED <<args, aliased>>
       ELSE /\ raised' = "none"
            /\ args' = [args EXCEPT ![Position(name)] =
                                       _init_argument(Argument(name, kwargs), kwargs)]
            /\ aliased' = aliased \ {name}
    /\ derived' = <<>>
    /\ UNCHANGED <<trim, store_missing, bundle_errors, BUNDLE_ERRORS, pc, req, strict,
                   idx, result, errors, unparsed, outcome, resolved, converted, returns,
                   parser_copy, on_copy, otherVars>>

(* RequestParser.remove_argument(name) *)
remove_argument(name) ==
    /\ pc = "idle"
    /\ IF name \notin ArgNames
       THEN /\ raised' = "ArgumentDoesNotExist"
            /\ UNCHANGED <<args, aliased>>
       ELSE /\ raised' = "none"
            /\ args' = SelectSeq(args, LAMBDA arg : arg.name # name)
            /\ aliased' = aliased \ {name}
    /\ derived' = <<>>
    /\ UNCHANGED <<trim, store_missing, bundle_errors, BUNDLE_ERRORS, pc, req, strict,
                   idx, result, errors, unparsed, outcome, resolved, converted, returns,
                   parser_copy, on_copy, otherVars>>

(* a slip: the arguments are not cloned, the new dict holds the same objects *)
deepcopy_shallow(dict) ==
    [value |-> dict, shared |-> {dict[k].name : k \in 1..Len(dict)}]

(* deepcopy(self.args): equal arguments, none of them an object of self.args *)
deepcopy(dict) == [value |-> dict, shared |-> {}]

(* RequestParser.copy(): the parser it returns becomes the other parser *)
copy ==
    /\ pc = "idle"
    /\ ~on_copy
    /\ \E copied \in {deepcopy(args)} :
          /\ parser_copy' = [made |-> TRUE, args |-> copied.value, trim |-> trim,
                             store_missing |-> store_missing,
                             bundle_errors |-> bundle_errors]
          /\ aliased' = copied.shared
    /\ raised' = "none"
    /\ derived' = <<>>
    /\ UNCHANGED <<args, trim, store_missing, bundle_errors, BUNDLE_ERRORS, pc, req,
                   strict, idx, result, errors, unparsed, outcome, resolved, converted,
                   returns, on_copy, otherVars>>

(* the calls that follow are made on the other parser: self is now the     *)
(* parser copy() returned, or the original again                           *)
call_other ==
    /\ pc = "idle"
    /\ parser_copy.made
    /\ args' = parser_copy.args
    /\ trim' = parser_copy.trim
    /\ store_missing' = parser_copy.store_missing
    /\ bundle_errors' = parser_copy.bundle_errors
    /\ parser_copy' = [made |-> TRUE, args |-> args, trim |-> trim,
                       store_missing |-> store_missing,
                       bundle_errors |-> bundle_errors]
    /\ on_copy' = ~on_copy
    /\ raised' = "none"
    /\ derived' = <<>>
    /\ UNCHANGED <<BUNDLE_ERRORS, pc, req, strict, idx, result, errors, unparsed,
                   outcome, resolved, converted, returns, aliased, otherVars>>

(* what the other parser holds once self's arguments are as given: an      *)
(* object of both parsers is one object                                    *)
Through(other, as, names) ==
    [other EXCEPT !.args =
        [k \in 1..Len(other.args) |->
            IF other.args[k].name \in names
            THEN as[CHOOSE j \in 1..Len(as) : as[j].name = other.args[k].name]
            ELSE other.args[k]]]

(* a slip: store_missing is not consulted *)
stores_always(found, arg) == TRUE

(* line 370: whether the value gets an entry in the result *)
stores(found, arg) == found \/ arg.store_missing

(* line 371: arg.dest or arg.name *)
result_key(arg) == IF Truthy(arg.dest) THEN arg.dest.s ELSE arg.name

(* a slip: the request is recorded when strict is off, not when it is on *)
unparsed_arguments_inverted(r, s) ==
    IF ~s THEN DictKeys(source(Argument(<<>>, NoKwargs), r)) ELSE <<>>

(* a slip: the headers and the cookies are tracked as well *)
unparsed_arguments_everywhere(r, s) ==
    IF s THEN DictKeys(source(Argument(<<>>, [location |->
                  Locations(<<"json", "values", "headers", "cookies">>)]), r))
    ELSE <<>>

(* line 363: the keys of req.unparsed_arguments when the loop starts *)
unparsed_arguments(r, s) ==
    IF s THEN DictKeys(source(Argument(<<>>, NoKwargs), r)) ELSE <<>>

(* parse_args, lines 356-364: up to the loop over the arguments *)
parse_args_call(r, s) ==
    /\ pc = "idle"
    /\ req' = r
    /\ strict' = s
    /\ result' = <<>>
    /\ unparsed' = unparsed_arguments(r, s)
    /\ errors' = <<>>
    /\ idx' = 1
    /\ pc' = "loop"
    /\ outcome' = NoOutcome
    /\ resolved' = <<>>
    /\ converted' = {}
    /\ returns' = <<>>
    /\ raised' = "none"
    /\ derived' = derived
    /\ UNCHANGED <<parserVars, copyVars, otherVars>>

(* parse_args, lines 365-371: one turn of the loop over the arguments *)
parse_args_arg ==
    /\ pc = "loop"
    /\ idx <= Len(args)
    /\ \E st \in {parse(args[idx], req, unparsed, BUNDLE_ERRORS, bundle_errors)} :
       LET arg == args[idx]
           ret == st.ret
           isError == ret.kind = "return" /\ ret.value.t = "ValueError"
           found == IF isError THEN FALSE ELSE ret.found.b
           key == result_key(arg)
       IN  /\ args' = [args EXCEPT ![idx].choices = st.choices]
           /\ unparsed' = st.unparsed
           /\ resolved' = Append(resolved, arg.name)
           /\ converted' = IF st.converted THEN converted \cup {arg.name} ELSE converted
           /\ returns' = Append(returns, [arg |-> arg, ret |-> ret])
           /\ IF ret.kind = "abort"
              THEN /\ outcome' = ret
                   /\ pc' = "done"
                   /\ UNCHANGED <<errors, result, idx>>
              ELSE /\ errors' = IF isError THEN DictUpdate(errors, ret.found.d)
                                ELSE errors
                   /\ result' = IF stores(found, arg)
                                THEN DictSet(result, key, ret.value)
                                ELSE result
                   /\ idx' = idx + 1
                   /\ UNCHANGED <<outcome, pc>>
    /\ parser_copy' = Through(parser_copy, args', aliased)
    /\ derived' = derived
    /\ UNCHANGED <<trim, store_missing, bundle_errors, BUNDLE_ERRORS, req, strict,
                   raised, aliased, on_copy, otherVars>>

RECURSIVE Join(_, _)
Join(strs, sep) ==
    IF strs = <<>> THEN <<>>
    ELSE IF Len(strs) = 1 THEN strs[1]
    ELSE strs[1] \o <<sep>> \o Join(Tail(strs), sep)

(* a slip: the unparsed arguments are looked at before the errors *)
parse_args_end_unknown_first ==
    /\ pc = "loop"
    /\ idx > Len(args)
    /\ outcome' =
          IF strict /\ unparsed # <<>>
          THEN [kind |-> "BadRequest",
                description |-> <<"Unknown arguments: ">> \o Join(unparsed, ", ")]
          ELSE IF errors # <<>>
          THEN abort(400, "Input payload validation failed", errors)
          ELSE [kind |-> "result", result |-> result]
    /\ pc' = "done"
    /\ derived' = derived
    /\ UNCHANGED <<args, trim, store_missing, bundle_errors, BUNDLE_ERRORS, req, strict,
                   idx, result, errors, unparsed, resolved, converted, returns,
                   raised, copyVars, otherVars>>

(* parse_args, lines 372-381: after the loop *)
parse_args_end ==
    /\ pc = "loop"
    /\ idx > Len(args)
    /\ outcome' =
          IF errors # <<>>
          THEN abort(400, "Input payload validation failed", errors)
          ELSE IF strict /\ unparsed # <<>>
          THEN [kind |-> "BadRequest",
                description |-> <<"Unknown arguments: ">> \o Join(unparsed, ", ")]
          ELSE [kind |-> "result", result |-> result]
    /\ pc' = "done"
    /\ derived' = derived
    /\ UNCHANGED <<args, trim, store_missing, bundle_errors, BUNDLE_ERRORS, req, strict,
                   idx, result, errors, unparsed, resolved, converted, returns,
                   raised, copyVars, otherVars>>

(* the caller takes the result or the failure; the locals of the call go *)
parse_args_return ==
    /\ pc = "done"
    /\ pc' = "idle"
    /\ req' = Query(<<>>)
    /\ strict' = FALSE
    /\ idx' = 0
    /\ result' = <<>>
    /\ errors' = <<>>
    /\ unparsed' = <<>>
    /\ outcome' = NoOutcome
    /\ resolved' = <<>>
    /\ converted' = {}
    /\ returns' = <<>>
    /\ derived' = derived
    /\ UNCHANGED <<parserVars, raised, copyVars, otherVars>>

Next ==
    \/ \E d \in Declarations, prebuilt \in BOOLEAN : add_argument(d[1], d[2], prebuilt)
    \/ \E r \in Requests, s \in BOOLEAN : parse_args_call(r, s)
    \/ parse_args_arg
    \/ parse_args_end
    \/ parse_args_return

Spec == Init /\ [][Next]_vars

(* The parser and its copy: arguments are added, replaced and removed, the *)
(* parser is copied, and calls go to either of the two parsers             *)
ParserDeclarations ==
    ({foo} \X { NoKwargs,
                [type |-> "int"],
                [choices |-> <<Str(BAT)>>, case_sensitive |-> FALSE],
                [trim |-> FALSE, store_missing |-> TRUE] })
    \cup ({bar} \X { NoKwargs, [trim |-> TRUE, store_missing |-> FALSE] })

ParserRequests == { Query(<< <<foo, Str(BAT)>>, <<bar, Str(<<" ", "7", " ">>)>> >>) }

ParsersNext ==
    \/ \E d \in ParserDeclarations, prebuilt \in BOOLEAN :
          add_argument(d[1], d[2], prebuilt)
    \/ \E d \in ParserDeclarations : replace_argument(d[1], d[2])
    \/ \E name \in {foo, bar} : remove_argument(name)
    \/ copy
    \/ call_other
    \/ \E r \in ParserRequests : parse_args_call(r, FALSE)
    \/ parse_args_arg
    \/ parse_args_end
    \/ parse_args_return

Parsers == Init /\ [][ParsersNext]_vars

-----------------------------------------------------------------------------
(* The schema of a parser *)

(* LOCATIONS.get(location, default): the key is hashed, which a list does  *)
(* not allow; a tuple of locations hashes and is not a key of the table    *)
LOCATIONS ==
    [args |-> "query", form |-> "formData", headers |-> "header",
     json |-> "body", values |-> "query", files |-> "formData"]

LOCATIONS_get(location, default) ==
    IF location.list THEN [kind |-> "raise", error |-> "TypeError"]
    ELSE IF location.single /\ location.tags[1] \in DOMAIN LOCATIONS
         THEN [kind |-> "return", value |-> LOCATIONS[location.tags[1]]]
         ELSE [kind |-> "return", value |-> default]

(* the types of this model that PY_TYPES has *)
PY_TYPES == [int |-> "integer", str |-> "string"]

(* param[key] = value *)
Put(param, key, value) == (key :> value) @@ param

(* the types of this model have neither __apidoc__ nor __schema__ *)
_handle_arg_type(arg, param) ==
    IF arg.type \in DOMAIN PY_TYPES THEN Put(param, "type", PY_TYPES[arg.type])
    ELSE IF arg.location = OneLocation("files") THEN Put(param, "type", "file")
    ELSE Put(param, "type", "string")

AsArray(param, collectionFormat) ==
    Put(Put(Put(param, "items", [type |-> param["type"]]), "type", "array"),
        "collectionFormat", collectionFormat)

(* a slip: the choices leave the collectionFormat as it is *)
Argument__schema___format_kept(arg) ==
    IF arg.location = OneLocation("cookie") THEN [kind |-> "return", none |-> TRUE]
    ELSE LET in == LOCATIONS_get(arg.location, "query") IN
         IF in.kind = "raise" THEN in
         ELSE LET p0 == _handle_arg_type(arg, ("name" :> arg.name) @@ ("in" :> in.value))
                  p1 == IF arg.required THEN Put(p0, "required", TRUE) ELSE p0
                  p2 == IF Truthy(arg.help) THEN Put(p1, "description", arg.help) ELSE p1
                  p3 == IF arg.default # None
                        THEN Put(p2, "default", default_value(arg)) ELSE p2
                  p4 == IF arg.action = "append" THEN AsArray(p3, "multi") ELSE p3
                  p5 == IF arg.action = "split" THEN AsArray(p4, "csv") ELSE p4
                  p6 == IF arg.choices # <<>>
                        THEN Put(p5, "enum", arg.choices)
                        ELSE p5
              IN  [kind |-> "return", none |-> FALSE, param |-> p6]

(* Argument.__schema__: nothing, a fragment, or the error of the lookup *)
Argument__schema__(arg) ==
    IF arg.location = OneLocation("cookie") THEN [kind |-> "return", none |-> TRUE]
    ELSE LET in == LOCATIONS_get(arg.location, "query") IN
         IF in.kind = "raise" THEN in
         ELSE LET p0 == _handle_arg_type(arg, ("name" :> arg.name) @@ ("in" :> in.value))
                  p1 == IF arg.required THEN Put(p0, "required", TRUE) ELSE p0
                  p2 == IF Truthy(arg.help) THEN Put(p1, "description", arg.help) ELSE p1
                  p3 == IF arg.default # None
                        THEN Put(p2, "default", default_value(arg)) ELSE p2
                  p4 == IF arg.action = "append" THEN AsArray(p3, "multi") ELSE p3
                  p5 == IF arg.action = "split" THEN AsArray(p4, "csv") ELSE p4
                  p6 == IF arg.choices # <<>>
                        THEN Put(Put(p5, "enum", arg.choices), "collectionFormat", "multi")
                        ELSE p5
              IN  [kind |-> "return", none |-> FALSE, param |-> p6]

(* the fragments of the arguments, in the order of the arguments *)
RECURSIVE Params(_)
Params(as) ==
    IF as = <<>> THEN <<>>
    ELSE LET out == Argument__schema__(Head(as))
         IN  (IF out.none THEN <<>> ELSE <<out.param>>) \o Params(Tail(as))

(* a slip: the fragments are returned whatever their locations *)
RequestParser__schema___unchecked(as) ==
    IF \E k \in 1..Len(as) : Argument__schema__(as[k]).kind = "raise"
    THEN [kind |-> "raise", error |-> "TypeError"]
    ELSE [kind |-> "return", params |-> Params(as)]

(* RequestParser.__schema__ *)
RequestParser__schema__(as) ==
    IF \E k \in 1..Len(as) : Argument__schema__(as[k]).kind = "raise"
    THEN [kind |-> "raise", error |-> "TypeError"]
    ELSE LET params == Params(as)
             locations == {params[k]["in"] : k \in 1..Len(params)}
         IN  IF "body" \in locations /\ "formData" \in locations
             THEN [kind |-> "raise", error |-> "SpecsError",
                   message |-> "Can't use formData and body at the same time"]
             ELSE [kind |-> "return", params |-> params]

(* the derivations the model remembers *)
MaxDerived == 2

Remember(outs, out) ==
    Append(IF Len(outs) = MaxDerived THEN Tail(outs) ELSE outs, out)

(* a slip: the default of an argument is called once and kept *)
__schema___caching ==
    /\ pc = "idle"
    /\ \E out \in {RequestParser__schema__(args)} :
          /\ derived' = Remember(derived, out)
          /\ raised' = IF out.kind = "raise" THEN out.error ELSE "none"
    /\ args' = [k \in 1..Len(args) |->
                  [args[k] EXCEPT !.default = IF @.t = "callable" THEN @.r ELSE @]]
    /\ UNCHANGED <<trim, store_missing, bundle_errors, BUNDLE_ERRORS, pc, req, strict,
                   idx, result, errors, unparsed, outcome, resolved, converted,
                   returns, copyVars, otherVars>>

(* parser.__schema__ is read *)
__schema__ ==
    /\ pc = "idle"
    /\ \E out \in {RequestParser__schema__(args)} :
          /\ derived' = Remember(derived, out)
          /\ raised' = IF out.kind = "raise" THEN out.error ELSE "none"
    /\ UNCHANGED <<parserVars, pc, req, strict, idx, result, errors, unparsed,
                   outcome, resolved, converted, returns, copyVars, otherVars>>

(* arguments of every location, a request with headers and cookies *)
SchemaDeclarations ==
    ({foo} \X { [type |-> "int"],
                [location |-> OneLocation("json")],
                [location |-> OneLocation("headers"), help |-> Str(bat)],
                [type |-> "int", required |-> TRUE, action |-> "append",
                 choices |-> <<Int_(1), Int_(2)>>, location |-> OneLocation("args")],
                [type |-> "int", choices |-> <<Int_(1), Int_(2), Int_(3)>>],
                [action |-> "split", choices |-> <<Str(bat), Str(bar)>>,
                 default |-> Str(bat)] })
    \cup ({bar} \X { [location |-> OneLocation("cookies")],
                     [location |-> OneLocation("cookie")],
                     [location |-> OneLocation("form"), type |-> "int"],
                     [location |-> OneLocation("files"), type |-> "FileStorage"] })
    \cup ({baz} \X { [location |-> Locations(<<"values", "cookies">>)],
                     [location |-> OneLocation("json"), action |-> "split",
                      default |-> Callable(Str(bar))] })

SchemaRequests ==
    { Request(Present(<< <<foo, Int_(2)>> >>),
              Present(<< <<foo, Str(<<"1">>)>>, <<baz, Str(bat)>> >>),
              Present(<< <<foo, Str(bar)>> >>),
              Present(<< <<bar, Str(<<"4">>)>> >>)) }

SchemasNext ==
    \/ \E d \in SchemaDeclarations : add_argument(d[1], d[2], FALSE)
    \/ \E d \in SchemaDeclarations : replace_argument(d[1], d[2])
    \/ \E name \in {foo, bar, baz} : remove_argument(name)
    \/ __schema__
    \/ \E r \in SchemaRequests : parse_args_call(r, FALSE)
    \/ parse_args_arg
    \/ parse_args_end
    \/ parse_args_return

Schemas == Init /\ [][SchemasNext]_vars

-----------------------------------------------------------------------------
(* ParseResult *)

ITEMS == <<"i", "t", "e", "m", "s">>
spam == <<"s", "p", "a", "m">>

(* the names of this model that are attributes of every dict *)
DictAttributes == {ITEMS}

(* what dict has under the name of one of its attributes: a method *)
Method(name) == [t |-> "method", m |-> name]

(* self[name] *)
__getitem__(items, name) ==
    IF name \in Keys(items)
    THEN [kind |-> "return",
          value |-> items[CHOOSE k \in 1..Len(items) : items[k][1] = name][2]]
    ELSE [kind |-> "raise", error |-> "KeyError", name |-> name]

(* ParseResult.__getattr__ *)
__getattr__(items, name) ==
    LET item == __getitem__(items, name)
    IN  IF item.kind = "raise"
        THEN [kind |-> "raise", error |-> "AttributeError", name |-> name]
        ELSE item

(* result.name: __getattr__ is called when the lookup of the name in the   *)
(* object and its type finds nothing                                       *)
ReadAttribute(items, name) ==
    IF name \in DictAttributes
    THEN [kind |-> "return", value |-> Method(name)]
    ELSE __getattr__(items, name)

(* result.name = value: ParseResult.__setattr__, called for every name *)
__setattr__(name, value) ==
    /\ pc = "idle"
    /\ parse_result' = DictSet(parse_result, name, value)
    /\ got' = [kind |-> "set", by |-> "attribute", name |-> name]
    /\ UNCHANGED <<parserVars, pc, req, strict, idx, result, errors, unparsed,
                   outcome, resolved, converted, returns, raised, copyVars,
                   derived, conversion, taskVars>>

(* result[name] = value *)
__setitem__(name, value) ==
    /\ pc = "idle"
    /\ parse_result' = DictSet(parse_result, name, value)
    /\ got' = [kind |-> "set", by |-> "key", name |-> name]
    /\ UNCHANGED <<parserVars, pc, req, strict, idx, result, errors, unparsed,
                   outcome, resolved, converted, returns, raised, copyVars,
                   derived, conversion, taskVars>>

(* result.name is read *)
read_attribute(name) ==
    /\ pc = "idle"
    /\ got' = [kind |-> "get", by |-> "attribute", name |-> name,
               out |-> ReadAttribute(parse_result, name)]
    /\ UNCHANGED <<parserVars, pc, req, strict, idx, result, errors, unparsed,
                   outcome, resolved, converted, returns, raised, copyVars,
                   derived, parse_result, conversion, taskVars>>

(* result[name] is read *)
read_item(name) ==
    /\ pc = "idle"
    /\ got' = [kind |-> "get", by |-> "key", name |-> name,
               out |-> __getitem__(parse_result, name)]
    /\ UNCHANGED <<parserVars, pc, req, strict, idx, result, errors, unparsed,
                   outcome, resolved, converted, returns, raised, copyVars,
                   derived, parse_result, conversion, taskVars>>

ResultNames == {foo, bar, spam, ITEMS}

ResultValues == {Str(bar), Str(baz)}

ResultsNext ==
    \/ \E name \in ResultNames, value \in ResultValues : __setattr__(name, value)
    \/ \E name \in ResultNames, value \in ResultValues : __setitem__(name, value)
    \/ \E name \in ResultNames : read_attribute(name)
    \/ \E name \in ResultNames : read_item(name)

Results == Init /\ [][ResultsNext]_vars

-----------------------------------------------------------------------------
(* Argument.convert on its own: an argument of each converter converts a   *)
(* value met under an operator                                             *)

convert_call(name, type, value, op) ==
    /\ pc = "idle"
    /\ \E arg \in {Argument(name, [type |-> type])} :
          conversion' = [kind |-> "done", type |-> type, value |-> value,
                         name |-> name, op |-> op,
                         calls |-> IF value = None THEN <<>>
                                   ELSE CallChain(type, value, name, op),
                         out |-> convert(arg, value, op)]
    /\ UNCHANGED <<parserVars, pc, req, strict, idx, result, errors, unparsed,
                   outcome, resolved, converted, returns, raised, copyVars,
                   derived, parse_result, got, taskVars>>

ConverterTypes == {"str", "int"} \cup DOMAIN Converters

ConvertedValues == {Str(<<"7">>), Str(bar), Int_(5), None}

ConvertsNext ==
    \E name \in {foo, bar}, type \in ConverterTypes, value \in ConvertedValues,
       op \in {EQ, LE} : convert_call(name, type, value, op)

Converts == Init /\ [][ConvertsNext]_vars

-----------------------------------------------------------------------------
(* Two calls of parse_args on one parser.  A call runs until it awaits the *)
(* source of an argument (lines 206 and 363 to 366); there the other call  *)
(* may run.  The parser is given with its arguments declared.              *)

TRUE_ == <<"T", "r", "u", "e">>

ConcurrentParsers ==
    LET foos == { [choices |-> <<Str(TRUE_), Str(BAT)>>, case_sensitive |-> FALSE],
                  [choices |-> <<Str(TRUE_), Str(BAT)>>],
                  [type |-> "int", ignore |-> TRUE] }
        bars == { [required |-> TRUE], [type |-> "int"] }
    IN  {<<Argument(foo, f)>> : f \in foos}
        \cup {<<Argument(foo, f), Argument(bar, b)>> : f \in foos, b \in bars}

ConcurrentRequests ==
    { Request(Present(<< <<foo, Bool(TRUE)>> >>), Present(<<>>), Present(<<>>),
              Present(<<>>)),
      Query(<< <<foo, Str(BAT)>>, <<bar, Str(<<"7">>)>> >>),
      Query(<< <<foo, Str(<<"1">>)>>, <<baz, Str(bat)>> >>) }

ConcurrentInit ==
    /\ args \in ConcurrentParsers
    /\ declared = args
    /\ trim = FALSE
    /\ store_missing = TRUE
    /\ bundle_errors \in BOOLEAN
    /\ BUNDLE_ERRORS = FALSE
    /\ pc = "idle"
    /\ NoCall
    /\ raised = "none"
    /\ parser_copy = NoParser
    /\ aliased = {}
    /\ on_copy = FALSE
    /\ derived = <<>>
    /\ parse_result = <<>>
    /\ got = [kind |-> "none"]
    /\ conversion = [kind |-> "none"]
    /\ suspended = NoTask

(* the running call is suspended, or its caller is, and the other call runs *)
switch ==
    /\ suspended' = [pc |-> pc, req |-> req, strict |-> strict, idx |-> idx,
                     result |-> result, errors |-> errors, unparsed |-> unparsed,
                     outcome |-> outcome, resolved |-> resolved,
                     converted |-> converted, returns |-> returns]
    /\ pc' = suspended.pc
    /\ req' = suspended.req
    /\ strict' = suspended.strict
    /\ idx' = suspended.idx
    /\ result' = suspended.result
    /\ errors' = suspended.errors
    /\ unparsed' = suspended.unparsed
    /\ outcome' = suspended.outcome
    /\ resolved' = suspended.resolved
    /\ converted' = suspended.converted
    /\ returns' = suspended.returns
    /\ UNCHANGED <<parserVars, raised, copyVars, derived, parse_result, got,
                   conversion, declared>>

ConcurrentNext ==
    \/ \E r \in ConcurrentRequests, s \in BOOLEAN : parse_args_call(r, s)
    \/ parse_args_arg
    \/ parse_args_end
    \/ parse_args_return
    \/ switch

Concurrent == ConcurrentInit /\ [][ConcurrentNext]_vars

-----------------------------------------------------------------------------
(* Argument.source, location by location: the value of a location is       *)
(* taken from the request and, when it is a coroutine, awaited before the   *)
(* next location is looked at (lines 121 to 143); the rest of               *)
(* Argument.parse runs when the source is there (line 206).  The start and  *)
(* the end of each location go to resolved, before the name of the argument *)

IsName(event) == event[1] \notin {"start", "done"}

(* the events of the argument whose source is being resolved *)
RECURSIVE Pending(_)
Pending(events) ==
    IF events = <<>> \/ IsName(events[Len(events)]) THEN <<>>
    ELSE Append(Pending(SubSeq(events, 1, Len(events) - 1)), events[Len(events)])

Awaiting == Pending(resolved) # <<>> /\ Pending(resolved)[Len(Pending(resolved))][1] = "start"

Completed == Cardinality({p \in 1..Len(Pending(resolved)) : Pending(resolved)[p][1] = "done"})

(* a slip: the next location is started while the last one is awaited *)
location_start_eager ==
    /\ pc = "loop"
    /\ idx <= Len(args)
    /\ Len(Pending(resolved)) < 2 * Len(args[idx].location.tags)
    /\ LET started == Cardinality({p \in 1..Len(Pending(resolved)) :
                                      Pending(resolved)[p][1] = "start"})
       IN  /\ started < Len(args[idx].location.tags)
           /\ resolved' = Append(resolved, <<"start", args[idx].location.tags[started + 1]>>)
    /\ derived' = derived
    /\ UNCHANGED <<parserVars, pc, req, strict, idx, result, errors, unparsed, outcome,
                   converted, returns, raised, copyVars, otherVars>>

(* value = getattr(req, l, None), called when callable: lines 132-135 *)
location_start ==
    /\ pc = "loop"
    /\ idx <= Len(args)
    /\ ~Awaiting
    /\ Completed < Len(args[idx].location.tags)
    /\ resolved' = Append(resolved, <<"start", args[idx].location.tags[Completed + 1]>>)
    /\ derived' = derived
    /\ UNCHANGED <<parserVars, pc, req, strict, idx, result, errors, unparsed, outcome,
                   converted, returns, raised, copyVars, otherVars>>

(* value = await value; values.update(value): lines 137-141 *)
location_done ==
    /\ pc = "loop"
    /\ Awaiting
    /\ resolved' = Append(resolved, <<"done", Pending(resolved)[Len(Pending(resolved))][2]>>)
    /\ derived' = derived
    /\ UNCHANGED <<parserVars, pc, req, strict, idx, result, errors, unparsed, outcome,
                   converted, returns, raised, copyVars, otherVars>>

(* the source is returned and Argument.parse goes on with it *)
parse_resolved ==
    /\ pc = "loop"
    /\ idx <= Len(args)
    /\ ~Awaiting
    /\ Completed = Len(args[idx].location.tags)
    /\ parse_args_arg

ResolutionDeclarations ==
    ({foo} \X { NoKwargs, [location |-> OneLocation("headers"), required |-> TRUE] })
    \cup ({bar} \X { [location |-> Locations(<<"values", "cookies">>)],
                     [location |-> Locations(<<"headers", "values", "json">>),
                      type |-> "int"] })

ResolutionsNext ==
    \/ \E d \in ResolutionDeclarations : add_argument(d[1], d[2], FALSE)
    \/ \E r \in SchemaRequests : parse_args_call(r, FALSE)
    \/ location_start
    \/ location_done
    \/ parse_resolved
    \/ parse_args_end
    \/ parse_args_return

Resolutions == Init /\ [][ResolutionsNext]_vars

-----------------------------------------------------------------------------
(* What the parse of one argument is expected to give, stated over the     *)
(* request rather than over the loops of Argument.parse                    *)

(* the key an operator reads: foo for '=', foo> for '>=', foo< for '<=' *)
ExpectedKey(name, operator) ==
    CASE operator = EQ -> name
      [] operator = GE -> name \o <<">">>
      [] operator = LE -> name \o <<"<">>

(* the raw values an argument meets, operator by operator in declared      *)
(* order, and in source order under one operator                           *)
RECURSIVE Candidates(_, _, _)
Candidates(a, operators, src) ==
    IF operators = <<>> THEN <<>>
    ELSE LET values == getlist(src, ExpectedKey(a.name, Head(operators)))
         IN  [k \in 1..Len(values) |-> [op |-> Head(operators), raw |-> values[k]]]
             \o Candidates(a, Tail(operators), src)

Met(a, r) == Candidates(a, a.operators, source(a, r))

(* a value met, trimmed, folded and coerced as the argument does *)
CoercedOf(a, m) == coerce(a, prepare(a, m.raw), m.op)

CoercedAt(a, r, k) == CoercedOf(a, Met(a, r)[k])

(* the choices the k-th value is compared with: lowercased once a string   *)
(* value was met by a case-insensitive argument                            *)
ChoicesIn(a, met, k) ==
    IF ~a.case_sensitive /\ \E j \in 1..k : met[j].raw.t = "str"
    THEN {Str(lower(a.choices[j].s)) : j \in 1..Len(a.choices)}
    ELSE {a.choices[j] : j \in 1..Len(a.choices)}

RejectedIn(a, met, k) ==
    LET c == CoercedOf(a, met[k])
    IN  \/ ~c.ok /\ ~a.ignore
        \/ c.ok /\ a.choices # <<>> /\ c.val \notin ChoicesIn(a, met, k)

AcceptedIn(a, met, k) ==
    LET c == CoercedOf(a, met[k])
    IN  c.ok /\ (a.choices = <<>> \/ c.val \in ChoicesIn(a, met, k))

Accepted(a, r, k) == AcceptedIn(a, Met(a, r), k)

(* the coerced values that are accepted, in the order they are met *)
RECURSIVE AcceptedUpTo(_, _, _)
AcceptedUpTo(a, met, k) ==
    IF k = 0 THEN <<>>
    ELSE AcceptedUpTo(a, met, k - 1)
         \o (IF AcceptedIn(a, met, k) THEN <<CoercedOf(a, met[k]).val>> ELSE <<>>)

AcceptedValues(a, r) == LET met == Met(a, r) IN AcceptedUpTo(a, met, Len(met))

SomeRejected(a, r) ==
    LET met == Met(a, r) IN \E k \in 1..Len(met) : RejectedIn(a, met, k)

(* the argument fails validation on the request *)
Fails(a, r) ==
    LET met == Met(a, r)
    IN  \/ \E k \in 1..Len(met) : RejectedIn(a, met, k)
        \/ a.required /\ AcceptedUpTo(a, met, Len(met)) = <<>>

(* the failure or the bundled error that Argument.parse gave *)
IsFailure(ret) ==
    ret.kind = "abort" \/ (ret.kind = "return" /\ ret.value.t = "ValueError")

FailureErrors(ret) == IF ret.kind = "abort" THEN ret.errors ELSE ret.found.d

NamesUpTo(k) == [j \in 1..k |-> args[j].name]

-----------------------------------------------------------------------------
(* Properties *)

(* C1: when errors are bundled (the app-level BUNDLE_ERRORS flag or the     *)
(* parser's bundle_errors is set), parse_args parses every declared         *)
(* argument, and if some argument fails it ends in one 400 failure whose    *)
(* errors have exactly one key per failing argument, its name.              *)
C1_BundledErrors ==
    (pc = "done" /\ (BUNDLE_ERRORS \/ bundle_errors)) =>
        LET failing == {k \in 1..Len(returns) : Fails(returns[k].arg, req)}
        IN  /\ Len(returns) = Len(args)
            /\ resolved = NamesUpTo(Len(args))
            /\ failing # {} =>
                  /\ outcome.kind = "abort"
                  /\ outcome.status = 400
                  /\ Keys(outcome.errors) = {returns[k].arg.name : k \in failing}
                  /\ Len(outcome.errors) = Cardinality(failing)

(* a bundled parse where the first argument fails, the second one is    *)
(* parsed all the same and succeeds, and the failure names the first only *)
C1_Witness ==
    /\ pc = "done"
    /\ BUNDLE_ERRORS \/ bundle_errors
    /\ Len(returns) = 2
    /\ Fails(returns[1].arg, req)
    /\ ~Fails(returns[2].arg, req)
    /\ returns[2].ret.found = _found
    /\ outcome.kind = "abort"
    /\ Keys(outcome.errors) = {returns[1].arg.name}

(* C2: when errors are not bundled, parse_args aborts at the first          *)
(* argument, in insertion order, that fails: the errors of the failure have *)
(* exactly that argument's name, and no later argument has its source       *)
(* resolved or its converter invoked.                                       *)
C2_AbortAtFirstFailure ==
    (pc = "done" /\ ~(BUNDLE_ERRORS \/ bundle_errors)) =>
        LET failing == {k \in 1..Len(args) :
                           Fails(IF k <= Len(returns) THEN returns[k].arg ELSE args[k],
                                 req)}
        IN  failing # {} =>
               LET first == CHOOSE k \in failing : \A h \in failing : k <= h
               IN  /\ outcome.kind = "abort"
                   /\ outcome.status = 400
                   /\ Len(outcome.errors) = 1
                   /\ outcome.errors[1][1] = args[first].name
                   /\ resolved = NamesUpTo(first)
                   /\ converted \subseteq {args[k].name : k \in 1..first}

(* an unbundled parse that aborted at the first of two arguments, while the *)
(* second one has a value in the request that was never converted           *)
C2_Witness ==
    /\ pc = "done"
    /\ ~(BUNDLE_ERRORS \/ bundle_errors)
    /\ Len(args) = 2
    /\ Fails(args[1], req)
    /\ Met(args[2], req) # <<>>
    /\ outcome.kind = "abort"
    /\ resolved = <<args[1].name>>
    /\ args[2].name \notin converted

(* the argument at position k as it was when its parse began *)
ArgAt(k) == IF k <= Len(returns) THEN returns[k].arg ELSE args[k]

(* the key of an argument's entry in the result: dest when set, else name *)
KeyOf(a) == IF a.dest.t = "str" THEN a.dest.s ELSE a.name

(* keys joined with ', ' *)
Listing(keys) ==
    LET listed[k \in 0..Len(keys)] ==
            IF k = 0 THEN <<>>
            ELSE IF k = 1 THEN keys[1]
            ELSE listed[k - 1] \o <<", ">> \o keys[k]
    IN  listed[Len(keys)]

(* the keys of the JSON body and of the values of the request that are the *)
(* key of no operator of any declared argument                             *)
Unclaimed ==
    {key \in Keys(req.json.items) \cup Keys(req.values.items) :
        \A k \in 1..Len(args) : \A j \in 1..Len(args[k].operators) :
            ExpectedKey(args[k].name, args[k].operators[j]) # key}

NoneFails == \A k \in 1..Len(args) : ~Fails(ArgAt(k), req)

UnknownArguments ==
    /\ outcome.kind = "BadRequest"
    /\ outcome.description = <<"Unknown arguments: ">> \o Listing(unparsed)
    /\ Unclaimed \subseteq {unparsed[k] : k \in 1..Len(unparsed)}

OnlyDeclaredEntries ==
    /\ outcome.kind # "BadRequest"
    /\ outcome.kind = "result" =>
          Keys(outcome.result) \subseteq {KeyOf(args[k]) : k \in 1..Len(args)}

(* C3 as stated: with strict=True parse_args fails with the 'Unknown        *)
(* arguments' failure naming the leftover keys whenever the request has a   *)
(* key that no declared argument claims; with strict=False it never fails   *)
(* for unknown keys and they give no entry in the result.                   *)
C3_Original ==
    pc = "done" =>
        /\ (strict /\ Unclaimed # {}) => UnknownArguments
        /\ ~strict => OnlyDeclaredEntries

(* C3, amended: with strict=True and no declared argument failing           *)
(* validation, parse_args fails with the 'Unknown arguments' failure naming *)
(* the leftover keys whenever the JSON body or the values of the request    *)
(* have a key that no declared argument claims; with strict=False it never  *)
(* fails for unknown keys and they give no entry in the result.             *)
C3_UnknownArguments ==
    pc = "done" =>
        /\ (strict /\ Unclaimed # {} /\ NoneFails) => UnknownArguments
        /\ ~strict => OnlyDeclaredEntries

(* a strict parse where the declared argument found its value and the      *)
(* request has other keys: the partial hit                                 *)
C3_Witness ==
    /\ pc = "done"
    /\ strict
    /\ Len(returns) = 1
    /\ returns[1].ret.kind = "return"
    /\ returns[1].ret.found = _found
    /\ Cardinality(Unclaimed) = 2
    /\ outcome.kind = "BadRequest"

(* C4: on success the keys of the result are exactly the dest-or-name of    *)
(* the arguments for which a value was found or whose store_missing is      *)
(* true.                                                                    *)
C4_ResultKeys ==
    (pc = "done" /\ outcome.kind = "result") =>
        Keys(outcome.result) =
            {KeyOf(args[k]) : k \in {j \in 1..Len(args) :
                                        \/ AcceptedValues(ArgAt(j), req) # <<>>
                                        \/ args[j].store_missing}}

(* a successful parse with a found value stored under dest and an absent   *)
(* argument with store_missing=False left out                              *)
C4_Witness ==
    /\ pc = "done"
    /\ outcome.kind = "result"
    /\ Len(args) = 2
    /\ \E k \in 1..2 :
          /\ args[k].dest.t = "str"
          /\ returns[k].ret.found = _found
          /\ args[k].dest.s \in Keys(outcome.result)
          /\ args[k].name \notin Keys(outcome.result)
    /\ \E k \in 1..2 :
          /\ ~args[k].store_missing
          /\ Met(args[k], req) = <<>>
          /\ args[k].name \notin Keys(outcome.result)

(* the value stored under a key of the result *)
Entry(items, key) ==
    items[CHOOSE k \in 1..Len(items) : items[k][1] = key][2]

(* C5: for a non-required argument that meets no value in its source,       *)
(* parse returns the default (the result of calling it when it is callable) *)
(* as not found, whatever the action; 'append' gives the default itself,    *)
(* not a list; with store_missing the default is the entry of the result.   *)
C5_DefaultWhenAbsent ==
    \A k \in 1..Len(returns) :
        LET a == returns[k].arg
            default == IF a.default.t = "callable" THEN a.default.r ELSE a.default
        IN  (~a.required /\ Met(a, req) = <<>>) =>
                /\ returns[k].ret = [kind |-> "return", value |-> default,
                                     found |-> _not_found]
                /\ (k = Len(returns) /\ a.store_missing) =>
                      /\ KeyOf(a) \in Keys(result)
                      /\ Entry(result, KeyOf(a)) = default

(* an absent 'append' argument with a default, stored as it is *)
C5_Witness ==
    /\ pc = "done"
    /\ outcome.kind = "result"
    /\ Len(returns) = 1
    /\ returns[1].arg.action = "append"
    /\ returns[1].arg.default = Str(bar)
    /\ Met(returns[1].arg, req) = <<>>
    /\ outcome.result = << <<foo, Str(bar)>> >>

(* the friendly names of the locations of an argument, in declared order *)
FriendlyNames(a) ==
    [k \in 1..Len(a.location.tags) |->
        CASE a.location.tags[k] = "json" -> "the JSON body"
          [] a.location.tags[k] = "values" -> "the post body or the query string"
          [] a.location.tags[k] = "headers" -> "the HTTP headers"
          [] a.location.tags[k] = "cookies" -> "the request's cookies"
          [] OTHER -> a.location.tags[k]]

RECURSIVE JoinedWithOr(_)
JoinedWithOr(names) ==
    IF Len(names) <= 1 THEN names
    ELSE <<Head(names), " or ">> \o JoinedWithOr(Tail(names))

(* C6 as stated: for a required argument that meets no value in its source, *)
(* parse does not return the default: it fails with one error under the     *)
(* argument's name whose message is 'Missing required parameter in '        *)
(* followed by the friendly names of its locations joined with ' or '.      *)
C6_Original ==
    \A k \in 1..Len(returns) :
        LET a == returns[k].arg
        IN  (a.required /\ Met(a, req) = <<>>) =>
                /\ IsFailure(returns[k].ret)
                /\ FailureErrors(returns[k].ret) =
                      << <<a.name, <<"Missing required parameter in ">>
                                   \o JoinedWithOr(FriendlyNames(a))>> >>

(* C6, amended: for a required argument that meets no value in its source,  *)
(* parse does not return the default: it fails with one error under the     *)
(* argument's name whose message is, after the help text and a space when   *)
(* help is set, 'Missing required parameter in ' followed by the friendly   *)
(* names of its locations joined with ' or '.                               *)
C6_MissingRequired ==
    \A k \in 1..Len(returns) :
        LET a == returns[k].arg
            help == IF a.help.t = "str" THEN a.help.s \o <<" ">> ELSE <<>>
        IN  (a.required /\ Met(a, req) = <<>>) =>
                /\ IsFailure(returns[k].ret)
                /\ FailureErrors(returns[k].ret) =
                      << <<a.name, help \o <<"Missing required parameter in ">>
                                   \o JoinedWithOr(FriendlyNames(a))>> >>

(* a required argument of two locations that is in neither *)
C6_Witness ==
    /\ pc = "done"
    /\ outcome.kind = "abort"
    /\ Len(returns) = 1
    /\ returns[1].arg.required
    /\ returns[1].arg.location.tags = <<"values", "cookies">>
    /\ Met(returns[1].arg, req) = <<>>
    /\ outcome.errors =
          << <<bar, <<"Missing required parameter in ",
                      "the post body or the query string",
                      " or ", "the request's cookies">> >> >>

(* the values an operator's key has in the source of an argument *)
ValuesUnder(a, r, operator) ==
    getlist(source(a, r), ExpectedKey(a.name, operator))

(* C7: for action 'store' a found value is returned as one value, the first *)
(* accumulated one (the first value in source order of the first operator   *)
(* in declared order that matched), never as the list of the accumulated    *)
(* values.                                                                  *)
C7_StoreFirstAccumulated ==
    \A k \in 1..Len(returns) :
        LET a == returns[k].arg
            accumulated == AcceptedValues(a, req)
        IN  (a.action = "store" /\ ~SomeRejected(a, req) /\ accumulated # <<>>) =>
                /\ returns[k].ret.kind = "return"
                /\ returns[k].ret.found = _found
                /\ returns[k].ret.value = accumulated[1]
                /\ returns[k].ret.value.t # "list"

(* a 'store' argument with two operators that both matched *)
C7_Witness ==
    /\ pc = "done"
    /\ Len(returns) = 1
    /\ returns[1].arg.action = "store"
    /\ returns[1].arg.operators = <<LE, EQ>>
    /\ ValuesUnder(returns[1].arg, req, LE) # <<>>
    /\ ValuesUnder(returns[1].arg, req, EQ) # <<>>
    /\ returns[1].ret.value = ValuesUnder(returns[1].arg, req, LE)[1]
    /\ outcome.kind = "result"

(* the values a 'store' argument meets under its j-th operator, those of   *)
(* them that are accepted, and the accepted ones of the operators before   *)
Under(a, j) == {h \in 1..Len(Met(a, req)) : Met(a, req)[h].op = a.operators[j]}

AcceptedUnder(a, j) ==
    LET met == Met(a, req)
    IN  {h \in 1..Len(met) : met[h].op = a.operators[j] /\ AcceptedIn(a, met, h)}

AcceptedBefore(a, j) ==
    LET met == Met(a, req)
    IN  {h \in 1..Len(met) :
            /\ \E i \in 1..(j - 1) : met[h].op = a.operators[i]
            /\ AcceptedIn(a, met, h)}

(* a 'store' argument whose j-th operator has several values in the        *)
(* source, some of them accepted and none of the argument's rejected, and  *)
(* no operator before it matched                                           *)
SeveralUnderOneKey(a, j) ==
    /\ a.action = "store"
    /\ Cardinality(Under(a, j)) > 1
    /\ ~SomeRejected(a, req)
    /\ AcceptedUnder(a, j) # {}
    /\ AcceptedBefore(a, j) = {}

(* C8 as stated: for action 'store', when the key of one operator has       *)
(* several values in the source, the last of them in source order is the    *)
(* stored result.                                                           *)
C8_Original ==
    \A k \in 1..Len(returns) :
        LET a == returns[k].arg
        IN  \A j \in 1..Len(a.operators) :
                SeveralUnderOneKey(a, j) =>
                    LET last == CHOOSE h \in Under(a, j) : \A i \in Under(a, j) : i <= h
                    IN  /\ returns[k].ret.kind = "return"
                        /\ returns[k].ret.value = CoercedAt(a, req, last).val

(* C8, amended: for action 'store', when the key of one operator has        *)
(* several values in the source, the first of them in source order that is  *)
(* accepted is the stored result, when no value is rejected and no operator *)
(* before it matched.                                                       *)
C8_FirstMatchWins ==
    \A k \in 1..Len(returns) :
        LET a == returns[k].arg
        IN  \A j \in 1..Len(a.operators) :
                SeveralUnderOneKey(a, j) =>
                    LET first == CHOOSE h \in AcceptedUnder(a, j) :
                                     \A i \in AcceptedUnder(a, j) : h <= i
                    IN  /\ returns[k].ret.kind = "return"
                        /\ returns[k].ret.found = _found
                        /\ returns[k].ret.value = CoercedAt(a, req, first).val

(* foo=bar&foo=bat parsed by a 'store' argument gives 'bar' *)
C8_Witness ==
    /\ pc = "done"
    /\ Len(returns) = 1
    /\ SeveralUnderOneKey(returns[1].arg, 1)
    /\ ValuesUnder(returns[1].arg, req, EQ) = <<Str(bar), Str(bat)>>
    /\ outcome.kind = "result"
    /\ outcome.result = << <<foo, Str(bar)>> >>

(* C9: for action 'append' the result lists the matched values grouped by   *)
(* operator in the order the operators were declared, in source order under *)
(* one operator, whatever the order of the keys in the request; an operator *)
(* whose key is absent adds nothing.                                        *)
C9_AppendByOperator ==
    \A k \in 1..Len(returns) :
        LET a == returns[k].arg
            matched == AcceptedValues(a, req)
        IN  (a.action = "append" /\ ~SomeRejected(a, req) /\ matched # <<>>) =>
                returns[k].ret = [kind |-> "return", value |-> List(matched),
                                  found |-> _found]

(* operators ['>=', '<='] on a request that has foo< before foo> *)
C9_Witness ==
    /\ pc = "done"
    /\ Len(returns) = 1
    /\ returns[1].arg.action = "append"
    /\ returns[1].arg.operators = <<GE, LE>>
    /\ Len(req.values.items) >= 2
    /\ req.values.items[1] = <<foo \o <<"<">>, Str(bat)>>
    /\ req.values.items[2] = <<foo \o <<">">>, Str(bar)>>
    /\ outcome.kind = "result"
    /\ outcome.result = << <<foo, List(<<Str(bar), Str(bat)>>)>> >>

(* C10: for an argument with choices, when its values coerce, the values    *)
(* are accepted if and only if every coerced value is one of the choices,   *)
(* and otherwise parse fails with an error under the argument's name; when  *)
(* case_sensitive is false a string value and the choices are lowercased    *)
(* before they are compared, and the lowercased value is the result.        *)
C10_Choices ==
    \A k \in 1..Len(returns) :
        LET a == returns[k].arg
            ret == returns[k].ret
            met == Met(a, req)
            folded(j) == ~a.case_sensitive /\ \E h \in 1..j : met[h].raw.t = "str"
            allowed(j) == IF folded(j)
                          THEN {Str(lower(a.choices[h].s)) : h \in 1..Len(a.choices)}
                          ELSE {a.choices[h] : h \in 1..Len(a.choices)}
        IN  (/\ a.choices # <<>>
             /\ met # <<>>
             /\ \A j \in 1..Len(met) : CoercedOf(a, met[j]).ok) =>
                IF \A j \in 1..Len(met) : CoercedOf(a, met[j]).val \in allowed(j)
                THEN /\ ret.kind = "return"
                     /\ ret.found = _found
                     /\ (a.action = "store" /\ a.type = "str" /\ ~a.trim
                            /\ met[1].raw.t = "str") =>
                           ret.value = IF a.case_sensitive THEN met[1].raw
                                       ELSE Str(lower(met[1].raw.s))
                ELSE /\ IsFailure(ret)
                     /\ Len(FailureErrors(ret)) = 1
                     /\ FailureErrors(ret)[1][1] = a.name

(* foo=BAT parsed against choices ['BAT'] without case sensitivity gives   *)
(* 'bat'                                                                   *)
C10_Witness ==
    /\ pc = "done"
    /\ Len(returns) = 1
    /\ returns[1].arg.choices = <<Str(BAT)>>
    /\ ~returns[1].arg.case_sensitive
    /\ Met(returns[1].arg, req) = <<[op |-> EQ, raw |-> Str(BAT)]>>
    /\ outcome.kind = "result"
    /\ outcome.result = << <<foo, Str(bat)>> >>

(* the values of an argument as they come out of the conversion, in the    *)
(* order they are met, and those of them that converted                    *)
Conversions(a, r) ==
    LET met == Met(a, r) IN [j \in 1..Len(met) |-> CoercedOf(a, met[j])]

Converted(a, r) ==
    LET good == SelectSeq(Conversions(a, r), LAMBDA c : c.ok)
    IN  [j \in 1..Len(good) |-> good[j].val]

(* C11: with ignore=True a value whose conversion fails is skipped: it is   *)
(* no failure and no result, and the other values of the argument are kept  *)
(* (when none is left the argument is treated as absent); with ignore=False *)
(* the same value is a validation failure carrying the conversion's         *)
(* message; a value that converts and is not one of the choices is a        *)
(* failure whatever ignore is.                                              *)
C11_IgnoreSkips ==
    \A k \in 1..Len(returns) :
        LET a == returns[k].arg
            ret == returns[k].ret
            met == Met(a, req)
            conv == Conversions(a, req)
            kept == Converted(a, req)
            bad == {j \in 1..Len(conv) : ~conv[j].ok}
            off == {j \in 1..Len(conv) :
                       /\ conv[j].ok
                       /\ a.choices # <<>>
                       /\ conv[j].val \notin ChoicesIn(a, met, j)}
            before(j) == \A h \in bad \cup off : j <= h
            help == IF a.help.t = "str" THEN a.help.s \o <<" ">> ELSE <<>>
        IN  /\ (a.ignore /\ bad # {} /\ off = {}) =>
                  IF kept # <<>>
                  THEN ret = [kind |-> "return", found |-> _found,
                              value |-> IF a.action = "append" THEN List(kept)
                                        ELSE kept[1]]
                  ELSE IF a.required
                  THEN IsFailure(ret)
                  ELSE ret = [kind |-> "return", found |-> _not_found,
                              value |-> IF a.default.t = "callable"
                                        THEN a.default.r ELSE a.default]
            /\ \A j \in bad : (~a.ignore /\ before(j)) =>
                  /\ IsFailure(ret)
                  /\ FailureErrors(ret) = << <<a.name, help \o conv[j].msg>> >>
            /\ off # {} => IsFailure(ret)

(* foo=bat&foo=1 parsed by an int argument with ignore=True: 'bat' is      *)
(* skipped and 1 is the result                                             *)
C11_Witness ==
    /\ pc = "done"
    /\ Len(returns) = 1
    /\ returns[1].arg.ignore
    /\ returns[1].arg.action = "store"
    /\ Len(Met(returns[1].arg, req)) = 2
    /\ ~Conversions(returns[1].arg, req)[1].ok
    /\ Conversions(returns[1].arg, req)[2].ok
    /\ outcome.kind = "result"
    /\ outcome.result = << <<foo, Int_(1)>> >>

(* the names of the arguments of a parser, in the order of its dict *)
NamesOf(as) == [k \in 1..Len(as) |-> as[k].name]

UniqueNames(as) ==
    \A j, k \in 1..Len(as) : as[j].name = as[k].name => j = k

(* C12: in both parsers the names of the arguments are unique, whatever was *)
(* added, replaced, removed and copied; add_argument with a name the parser *)
(* has raises DuplicateArgumentError, replace_argument and remove_argument  *)
(* with a name it does not have raise ArgumentDoesNotExist, and a call that *)
(* raises leaves the arguments of both parsers as they were.                *)
C12_UniqueNames ==
    /\ [](UniqueNames(args) /\ UniqueNames(parser_copy.args))
    /\ [][/\ \A d \in ParserDeclarations, prebuilt \in BOOLEAN :
               (add_argument(d[1], d[2], prebuilt) /\ d[1] \in ArgNames) =>
                   raised' = "DuplicateArgumentError"
          /\ \A d \in ParserDeclarations :
               (replace_argument(d[1], d[2]) /\ d[1] \notin ArgNames) =>
                   raised' = "ArgumentDoesNotExist"
          /\ \A name \in {foo, bar} :
               (remove_argument(name) /\ name \notin ArgNames) =>
                   raised' = "ArgumentDoesNotExist"
          /\ raised' \in {"DuplicateArgumentError", "ArgumentDoesNotExist"} =>
               /\ args' = args
               /\ parser_copy' = parser_copy]_vars

(* the copy lost foo, and removing foo from it once more raised *)
C12_Witness ==
    /\ on_copy
    /\ raised = "ArgumentDoesNotExist"
    /\ NamesOf(args) = <<bar>>
    /\ NamesOf(parser_copy.args) = <<foo, bar>>

(* C13: copy() leaves the parser as it is and returns a parser with equal   *)
(* arguments in the same order and the same trim, store_missing and         *)
(* bundle_errors, none of its arguments being an object of the original;    *)
(* after that a call on one of the two parsers (adding, replacing, removing *)
(* an argument, or parsing, which lowercases the choices) leaves the        *)
(* arguments and the settings of the other parser as they were.             *)
C13_CopyIndependent ==
    [][/\ copy =>
            /\ NamesOf(parser_copy'.args) = NamesOf(args)
            /\ parser_copy'.args = args
            /\ parser_copy'.trim = trim
            /\ parser_copy'.store_missing = store_missing
            /\ parser_copy'.bundle_errors = bundle_errors
            /\ aliased' = {}
            /\ UNCHANGED parserVars
       /\ (parser_copy.made /\ ~copy /\ ~call_other) =>
            parser_copy' = parser_copy]_vars

(* the copy parsed foo=BAT and lowercased its choices, the original's are  *)
(* as declared                                                             *)
C13_Witness ==
    /\ on_copy
    /\ pc = "done"
    /\ outcome.kind = "result"
    /\ Len(args) = 1
    /\ Len(parser_copy.args) = 1
    /\ args[1].choices = <<Str(bat)>>
    /\ parser_copy.args[1].choices = <<Str(BAT)>>
    /\ parser_copy.trim = trim

(* what an argument declared with these keywords is to have for a setting  *)
(* of the parser: the value it was given, else the parser's                *)
Given(kwargs, setting, default) ==
    IF setting \in DOMAIN kwargs THEN kwargs[setting] ELSE default

(* C14 as stated: after add_argument or replace_argument the new argument's *)
(* trim and store_missing are the values it was declared with, and the      *)
(* parser's trim and store_missing only when it was declared with none,     *)
(* whether it was declared by keywords or passed as an Argument object.     *)
C14_Original ==
    [][/\ \A d \in ParserDeclarations, prebuilt \in BOOLEAN :
            (add_argument(d[1], d[2], prebuilt) /\ raised' = "none") =>
                /\ args'[Len(args')].trim = Given(d[2], "trim", trim)
                /\ args'[Len(args')].store_missing =
                      Given(d[2], "store_missing", store_missing)
       /\ \A d \in ParserDeclarations :
            (replace_argument(d[1], d[2]) /\ raised' = "none") =>
                /\ args'[Position(d[1])].trim = Given(d[2], "trim", trim)
                /\ args'[Position(d[1])].store_missing =
                      Given(d[2], "store_missing", store_missing)]_vars

(* C14, for keywords only: the same, for an argument declared through the   *)
(* keywords of add_argument or replace_argument.                            *)
C14_KeywordsKept ==
    [][/\ \A d \in ParserDeclarations :
            (add_argument(d[1], d[2], FALSE) /\ raised' = "none") =>
                /\ args'[Len(args')].trim = Given(d[2], "trim", trim)
                /\ args'[Len(args')].store_missing =
                      Given(d[2], "store_missing", store_missing)
       /\ \A d \in ParserDeclarations :
            (replace_argument(d[1], d[2]) /\ raised' = "none") =>
                /\ args'[Position(d[1])].trim = Given(d[2], "trim", trim)
                /\ args'[Position(d[1])].store_missing =
                      Given(d[2], "store_missing", store_missing)]_vars

(* the locations whose fragments are 'body' and 'formData' fragments *)
InBody(a) == a.location = OneLocation("json")

InFormData(a) == a.location \in {OneLocation("form"), OneLocation("files")}

Conflicting(as) ==
    /\ \E k \in 1..Len(as) : InBody(as[k])
    /\ \E k \in 1..Len(as) : InFormData(as[k])

(* every argument gives a fragment or nothing *)
Derivable(as) == \A k \in 1..Len(as) : ~as[k].location.list

LastDerived == derived[Len(derived)]

Ins(params) == {params[k]["in"] : k \in 1..Len(params)}

(* C15: a derivation of the schema never returns fragments of which one has  *)
(* in = 'body' and another in = 'formData'; when the fragments of the        *)
(* arguments (one located in json, one in form or files) are such, it raises *)
(* SpecsError "Can't use formData and body at the same time".  Adding or     *)
(* replacing an argument raises nothing for its location: a new name is      *)
(* added and a known name replaced, conflicting or not.                      *)
C15_NoBodyWithFormData ==
    /\ [](\A k \in 1..Len(derived) :
            derived[k].kind = "return" =>
                ~("body" \in Ins(derived[k].params) /\ "formData" \in Ins(derived[k].params)))
    /\ [][/\ (__schema__ /\ Conflicting(args) /\ Derivable(args)) =>
                /\ LastDerived'.kind = "raise"
                /\ LastDerived'.error = "SpecsError"
                /\ LastDerived'.message = "Can't use formData and body at the same time"
                /\ raised' = "SpecsError"
          /\ \A d \in SchemaDeclarations :
                /\ (add_argument(d[1], d[2], FALSE) /\ d[1] \notin ArgNames) =>
                      /\ raised' = "none"
                      /\ NamesOf(args') = Append(NamesOf(args), d[1])
                      /\ args'[Len(args')].location = Given(d[2], "location", DefaultLocation)
                /\ (replace_argument(d[1], d[2]) /\ d[1] \in ArgNames) =>
                      /\ raised' = "none"
                      /\ NamesOf(args') = NamesOf(args)
                      /\ args'[Position(d[1])].location =
                            Given(d[2], "location", DefaultLocation)]_vars

(* foo in json and bar in files were accepted, the derivation raised *)
C15_Witness ==
    /\ Len(args) = 2
    /\ InBody(args[1])
    /\ args[2].location = OneLocation("files")
    /\ derived # <<>>
    /\ LastDerived.kind = "raise"
    /\ raised = "SpecsError"

(* the values of a name among the cookies of a request *)
CookiesOf(r, name) ==
    LET named == SelectSeq(r.cookies.items, LAMBDA item : item[1] = name)
    IN  [k \in 1..Len(named) |-> named[k][2]]

NamedIn(params, name) == \E k \in 1..Len(params) : params[k]["name"] = name

(* C16 as stated: an argument located in 'cookies', the tag under which the  *)
(* cookies of the request are read, gives no fragment, the schema of the     *)
(* parser has no fragment of its name, and its parse returns the cookie of   *)
(* its name as found.                                                        *)
C16_Original ==
    /\ \A k \in 1..Len(args) :
          args[k].location = OneLocation("cookies") =>
              /\ Argument__schema__(args[k]).kind = "return"
              /\ Argument__schema__(args[k]).none
              /\ \A j \in 1..Len(derived) :
                    derived[j].kind = "return" => ~NamedIn(derived[j].params, args[k].name)
    /\ \A k \in 1..Len(returns) :
          (/\ returns[k].arg.location = OneLocation("cookies")
           /\ CookiesOf(req, returns[k].arg.name) # <<>>) =>
              /\ returns[k].ret.kind = "return"
              /\ returns[k].ret.found = _found
              /\ returns[k].ret.value = CookiesOf(req, returns[k].arg.name)[1]

(* C16, for the tag the derivation looks for: an argument located in         *)
(* 'cookie' gives no fragment and the schema of the parser has no fragment   *)
(* of its name; its parse reads no location of the request and finds         *)
(* nothing.  An argument located in 'cookies' is parsed from the cookies.    *)
C16_CookieTagExcluded ==
    /\ \A k \in 1..Len(args) :
          args[k].location = OneLocation("cookie") =>
              /\ Argument__schema__(args[k]).kind = "return"
              /\ Argument__schema__(args[k]).none
              /\ \A j \in 1..Len(derived) :
                    derived[j].kind = "return" => ~NamedIn(derived[j].params, args[k].name)
    /\ \A k \in 1..Len(returns) :
          /\ returns[k].arg.location = OneLocation("cookie") =>
                /\ returns[k].ret.kind = "return"
                /\ returns[k].ret.found = _not_found
          /\ (/\ returns[k].arg.location = OneLocation("cookies")
              /\ CookiesOf(req, returns[k].arg.name) # <<>>) =>
                /\ returns[k].ret.kind = "return"
                /\ returns[k].ret.found = _found
                /\ returns[k].ret.value = CookiesOf(req, returns[k].arg.name)[1]

(* bar, located in 'cookie', is the second of two arguments and the schema *)
(* has the fragment of the first only                                      *)
C16_Witness ==
    /\ Len(args) = 2
    /\ args[2].location = OneLocation("cookie")
    /\ derived # <<>>
    /\ LastDerived.kind = "return"
    /\ Len(LastDerived.params) = 1

ReadGave(by, error) ==
    (got.kind = "get" /\ got.by = by) =>
        IF got.name \in Keys(parse_result)
        THEN got.out = [kind |-> "return", value |-> Entry(parse_result, got.name)]
        ELSE got.out = [kind |-> "raise", error |-> error, name |-> got.name]

(* C18 as stated: for every name, setting it by attribute or by key makes it *)
(* the one entry of that name; a read by attribute and a read by key give    *)
(* that entry, and when there is none the read by attribute fails with       *)
(* AttributeError and the read by key with KeyError.                         *)
C18_Original ==
    /\ [](ReadGave("attribute", "AttributeError") /\ ReadGave("key", "KeyError"))
    /\ [][\A name \in ResultNames, value \in ResultValues :
             (__setattr__(name, value) \/ __setitem__(name, value)) =>
                 /\ Entry(parse_result', name) = value
                 /\ \A other \in Keys(parse_result) \ {name} :
                       Entry(parse_result', other) = Entry(parse_result, other)
                 /\ Keys(parse_result') = Keys(parse_result) \cup {name}]_vars

(* C18, for the names that are not attributes of dict: the same; a name that *)
(* is one is set by either style and read by key alike, and its read by      *)
(* attribute gives dict's attribute, entry or no entry.                      *)
C18_NamesDictLacks ==
    /\ [](/\ got.kind = "get" /\ got.name \notin DictAttributes =>
                ReadGave("attribute", "AttributeError")
          /\ got.kind = "get" /\ got.by = "attribute" /\ got.name \in DictAttributes =>
                got.out = [kind |-> "return", value |-> Method(got.name)]
          /\ ReadGave("key", "KeyError"))
    /\ [][\A name \in ResultNames, value \in ResultValues :
             (__setattr__(name, value) \/ __setitem__(name, value)) =>
                 /\ Entry(parse_result', name) = value
                 /\ \A other \in Keys(parse_result) \ {name} :
                       Entry(parse_result', other) = Entry(parse_result, other)
                 /\ Keys(parse_result') = Keys(parse_result) \cup {name}]_vars

(* foo was set to 'bar', bar to 'baz', and bar is read by attribute *)
C18_Witness ==
    /\ parse_result = << <<foo, Str(bar)>>, <<bar, Str(baz)>> >>
    /\ got = [kind |-> "get", by |-> "attribute", name |-> bar,
              out |-> [kind |-> "return", value |-> Str(baz)]]

(* the key under which a 'store' argument meets its first value, and the   *)
(* listed locations of the argument that have that key, in listed order    *)
FirstKey(a, r) == ExpectedKey(a.name, Met(a, r)[1].op)

Holding(a, r, key) ==
    SelectSeq(a.location.tags,
              LAMBDA tag : getattr(r, tag).some /\ key \in Keys(getattr(r, tag).items))

(* the argument, had it been declared with one location and one operator *)
Located(a, tag, operator) ==
    [a EXCEPT !.location = OneLocation(tag), !.operators = <<operator>>]

(* C19: when the key under which a 'store' argument with a sequence of       *)
(* locations meets its first value is in more than one of those locations,   *)
(* the value returned is the one the last listed of these locations gives:   *)
(* what the argument declared with that location alone returns (no value of  *)
(* the argument being rejected).                                             *)
C19_LastLocationWins ==
    \A k \in 1..Len(returns) :
        LET a == returns[k].arg IN
        (/\ a.action = "store"
         /\ ~a.location.single
         /\ Met(a, req) # <<>>
         /\ ~SomeRejected(a, req)
         /\ AcceptedValues(a, req) # <<>>
         /\ Len(Holding(a, req, FirstKey(a, req))) > 1) =>
            LET holding == Holding(a, req, FirstKey(a, req))
                last == Located(a, holding[Len(holding)], Met(a, req)[1].op)
            IN  /\ returns[k].ret.kind = "return"
                /\ returns[k].ret.found = _found
                /\ AcceptedValues(last, req) # <<>>
                /\ returns[k].ret.value = AcceptedValues(last, req)[1]

(* foo is 2 in the JSON body and 'bat', then '1', in the query string: an  *)
(* argument of the default locations ('json', 'values') gets 'bat'         *)
C19_Witness ==
    /\ pc = "done"
    /\ outcome.kind = "result"
    /\ Len(returns) >= 1
    /\ returns[1].arg.name = foo
    /\ returns[1].arg.location = DefaultLocation
    /\ returns[1].arg.action = "store"
    /\ getattr(req, "json").some
    /\ getlist(getattr(req, "json").items, foo) = <<Int_(2)>>
    /\ getlist(getattr(req, "values").items, foo) = <<Str(bat), Str(<<"1">>)>>
    /\ returns[1].ret.value = Str(bat)
    /\ Entry(result, KeyOf(returns[1].arg)) = Str(bat)

(* the calls of the last conversion whose body ran *)
Ran == {j \in 1..Len(conversion.calls) : conversion.calls[j].ran}

OutcomeOf(call) == [ok |-> call.ok, val |-> call.val, msg |-> call.msg]

(* C20 as stated: for a value that is not None the converter is first called *)
(* with (value, name, operator); each further call has one argument less     *)
(* than the one before, which the converter did not accept; the body of the  *)
(* converter runs exactly once, and what that call returned or the text of   *)
(* what it raised is what convert gives.                                     *)
C20_Original ==
    (conversion.kind = "done" /\ conversion.value # None) =>
        LET calls == conversion.calls IN
        /\ calls # <<>>
        /\ calls[1].shape = 3
        /\ \A j \in 2..Len(calls) :
              /\ calls[j].shape = calls[j - 1].shape - 1
              /\ ~Accepts(conversion.type, calls[j - 1].shape)
        /\ Cardinality(Ran) = 1
        /\ \A j \in Ran : conversion.out = OutcomeOf(calls[j])

(* C20, with the TypeError of the converter's body taken for a call shape   *)
(* that is not accepted: the first call is with (value, name, operator);     *)
(* each further call has one argument less than the one before, which raised *)
(* TypeError; a call that raised no TypeError is the last one, the call with *)
(* (value) is the last one whatever it raised, and what the last call        *)
(* returned or the text of what it raised is what convert gives.  A          *)
(* converter whose body raises no TypeError runs exactly once.               *)
C20_UnlessTypeError ==
    (conversion.kind = "done" /\ conversion.value # None) =>
        LET calls == conversion.calls IN
        /\ calls # <<>>
        /\ calls[1].shape = 3
        /\ \A j \in 2..Len(calls) :
              /\ calls[j].shape = calls[j - 1].shape - 1
              /\ calls[j - 1].exc = "TypeError"
        /\ \A j \in 1..Len(calls) :
              (calls[j].exc # "TypeError" \/ calls[j].shape = 1) => j = Len(calls)
        /\ conversion.out = OutcomeOf(calls[Len(calls)])
        /\ (\A j \in Ran : calls[j].exc # "TypeError") => Cardinality(Ran) = 1

(* a converter of (value, name): the call with three arguments was not     *)
(* accepted, the call with two returned                                    *)
C20_Witness ==
    /\ conversion.kind = "done"
    /\ conversion.type = "by_name"
    /\ conversion.value = Str(bar)
    /\ Len(conversion.calls) = 2
    /\ ~conversion.calls[1].ran
    /\ conversion.calls[2].ran
    /\ conversion.out = Returned(Str(bar))

(* the parts of a string between its commas, in their order *)
Commas(s) == {k \in 1..Len(s) : s[k] = ","}

PartStart(s, i) ==
    IF i = 1 THEN 1
    ELSE 1 + CHOOSE k \in Commas(s) : Cardinality({h \in Commas(s) : h <= k}) = i - 1

PartEnd(s, i) ==
    IF i = Cardinality(Commas(s)) + 1 THEN Len(s)
    ELSE (CHOOSE k \in Commas(s) : Cardinality({h \in Commas(s) : h <= k}) = i) - 1

PartsOf(s) ==
    [i \in 1..(Cardinality(Commas(s)) + 1) |-> SubSeq(s, PartStart(s, i), PartEnd(s, i))]

(* the parts of a string, each given to the type of the argument *)
PartsAs(a, s) == [i \in 1..Len(PartsOf(s)) |-> CallType(a.type, Str(PartsOf(s)[i]))]

(* C21: a 'split' argument without choices that meets one value, a string    *)
(* every part of which between the commas its type accepts, returns as found *)
(* the list of the parts, each coerced on its own, in their order; a string  *)
(* without a comma gives a list of one element.                              *)
C21_SplitParts ==
    \A k \in 1..Len(returns) :
        LET a == returns[k].arg
            met == Met(a, req)
        IN  (/\ a.action = "split"
             /\ a.choices = <<>>
             /\ Len(met) = 1
             /\ met[1].raw.t = "str"
             /\ \A i \in 1..Len(PartsOf(met[1].raw.s)) : PartsAs(a, met[1].raw.s)[i].ok) =>
                LET parts == PartsAs(a, met[1].raw.s)
                IN  /\ returns[k].ret.kind = "return"
                    /\ returns[k].ret.found = _found
                    /\ returns[k].ret.value =
                          List([i \in 1..Len(parts) |-> parts[i].val])

(* foo=1,2 with type int gives [1, 2] *)
C21_Witness ==
    /\ pc = "done"
    /\ outcome.kind = "result"
    /\ Len(returns) = 1
    /\ returns[1].arg.action = "split"
    /\ returns[1].arg.type = "int"
    /\ Len(Met(returns[1].arg, req)) = 1
    /\ Met(returns[1].arg, req)[1].raw = Str(<<"1", ",", "2">>)
    /\ returns[1].ret.value = List(<<Int_(1), Int_(2)>>)
    /\ Entry(result, foo) = List(<<Int_(1), Int_(2)>>)

(* the argument of a name *)
Named(name) == args[Position(name)]

(* the keys of the fragment of an argument with choices *)
KeysWithChoices(a) ==
    {"name", "in", "type", "enum", "collectionFormat"}
    \cup (IF a.required THEN {"required"} ELSE {})
    \cup (IF a.help # None THEN {"description"} ELSE {})
    \cup (IF a.default # None THEN {"default"} ELSE {})
    \cup (IF a.action \in {"append", "split"} THEN {"items"} ELSE {})

(* C22: in a derived schema the fragment of an argument with choices has     *)
(* enum equal to the choices and collectionFormat 'multi', also when the     *)
(* action is 'split', and no key besides name, in, type and those of         *)
(* required, help, default and the action; type int with choices [1, 2, 3]   *)
(* and the default location gives exactly name, type 'integer', in 'query',  *)
(* enum [1, 2, 3] and collectionFormat 'multi'.                              *)
C22_ChoicesFragment ==
    \A j \in 1..Len(derived) :
        derived[j].kind = "return" =>
            \A i \in 1..Len(derived[j].params) :
                LET param == derived[j].params[i]
                    a == Named(param["name"])
                IN  a.choices # <<>> =>
                        /\ DOMAIN param = KeysWithChoices(a)
                        /\ param["enum"] = a.choices
                        /\ param["collectionFormat"] = "multi"
                        /\ a = Argument(a.name, [type |-> "int",
                                   choices |-> <<Int_(1), Int_(2), Int_(3)>>]) =>
                              /\ param["type"] = "integer"
                              /\ param["in"] = "query"
                              /\ param["name"] = a.name
                              /\ DOMAIN param =
                                    {"name", "type", "in", "enum", "collectionFormat"}

(* the schema of foo, a 'split' argument with choices and a default *)
C22_Witness ==
    /\ Len(args) = 1
    /\ args[1].action = "split"
    /\ args[1].choices = <<Str(bat), Str(bar)>>
    /\ derived # <<>>
    /\ LastDerived.kind = "return"
    /\ LastDerived.params[1]["collectionFormat"] = "multi"
    /\ LastDerived.params[1]["type"] = "array"
    /\ LastDerived.params[1]["enum"] = <<Str(bat), Str(bar)>>

(* the keys of the locations the declared arguments read *)
KeysRead ==
    UNION {UNION {Keys(getattr(req, args[k].location.tags[j]).items) :
                     j \in 1..Len(args[k].location.tags)} : k \in 1..Len(args)}

(* the keys of the locations an argument reads by default *)
KeysOfDefaultLocations == Keys(req.json.items) \cup Keys(req.values.items)

Tracked == {unparsed[k] : k \in 1..Len(unparsed)}

(* the keys that are the key of no operator of any declared argument *)
ClaimedByNone(keys) ==
    {key \in keys :
        \A k \in 1..Len(args) : \A j \in 1..Len(args[k].operators) :
            ExpectedKey(args[k].name, args[k].operators[j]) # key}

(* the strict parse has made its record of keys and parsed no argument yet *)
Snapshot == pc = "loop" /\ idx = 1 /\ strict

(* C23 as stated: a strict parse starts with the keys of every location the *)
(* declared arguments read, and when no argument fails validation a key of   *)
(* one of these locations that no declared argument claims makes it fail     *)
(* with the 'Unknown arguments' failure.                                     *)
C23_Original ==
    /\ Snapshot => Tracked = KeysRead
    /\ (pc = "done" /\ strict /\ NoneFails /\ ClaimedByNone(KeysRead) # {}) =>
          outcome.kind = "BadRequest"

(* C23, amended: a strict parse starts with the keys of the JSON body and of *)
(* the values of the request, whatever the locations of the declared         *)
(* arguments, and no other key is tracked later; when no argument fails      *)
(* validation a key of these two locations that no declared argument claims  *)
(* makes it fail with the 'Unknown arguments' failure naming it, and a key   *)
(* that is only in the headers or in the cookies never does.                 *)
C23_DefaultLocationsTracked ==
    /\ Snapshot => Tracked = KeysOfDefaultLocations
    /\ strict => Tracked \subseteq KeysOfDefaultLocations
    /\ (pc = "done" /\ strict /\ NoneFails
           /\ ClaimedByNone(KeysOfDefaultLocations) # {}) =>
          /\ outcome.kind = "BadRequest"
          /\ ClaimedByNone(KeysOfDefaultLocations) \subseteq Tracked
          /\ outcome.description = <<"Unknown arguments: ">> \o Listing(unparsed)

(* a strict parse of an argument read from the headers returned its result: *)
(* the header bar, which no argument claims, was not tracked                *)
C23_Witness ==
    /\ pc = "done"
    /\ strict
    /\ Len(args) = 1
    /\ args[1].location = OneLocation("headers")
    /\ bar \in Keys(req.headers.items)
    /\ bar \in ClaimedByNone(KeysRead)
    /\ outcome.kind = "result"
    /\ Entry(outcome.result, foo) = Str(bar)

(* the keys of an argument that its source has *)
OwnKeys(a, r) ==
    {ExpectedKey(a.name, a.operators[j]) : j \in 1..Len(a.operators)}
    \cap Keys(source(a, r))

(* the strict check ran and failed *)
UnknownArgumentsFailure == pc = "done" /\ strict /\ outcome.kind = "BadRequest"

(* C24 as stated: when a strict parse fails with the 'Unknown arguments'     *)
(* failure, no key that a declared argument has in its source is among the   *)
(* keys named, whatever the options of the argument.                         *)
C24_Original ==
    UnknownArgumentsFailure =>
        \A k \in 1..Len(returns) : OwnKeys(returns[k].arg, req) \cap Tracked = {}

(* C24, for values that are accepted: once an argument none of whose values  *)
(* is rejected has been parsed, a key under which it met a value that was    *)
(* accepted (not skipped under ignore=True) is not tracked any more.          *)
C24_AcceptedKeysClaimed ==
    strict =>
        \A k \in 1..Len(returns) :
            LET a == returns[k].arg
                met == Met(a, req)
            IN  ~SomeRejected(a, req) =>
                    \A h \in 1..Len(met) :
                        AcceptedIn(a, met, h) =>
                            ExpectedKey(a.name, met[h].op) \notin Tracked

(* a strict parse where foo met an accepted value under its key and the     *)
(* check failed for another key                                             *)
C24_Witness ==
    /\ UnknownArgumentsFailure
    /\ Len(returns) = 1
    /\ Met(returns[1].arg, req) # <<>>
    /\ AcceptedIn(returns[1].arg, Met(returns[1].arg, req), 1)
    /\ foo \in KeysOfDefaultLocations
    /\ Tracked = {baz}

(* the choices in lower case *)
Lowercased(choices) == [k \in 1..Len(choices) |-> Str(lower(choices[k].s))]

(* the argument meets a string value before any of its values is rejected, *)
(* or as the one that is rejected                                          *)
MeetsString(a, r) ==
    LET met == Met(a, r)
    IN  \E h \in 1..Len(met) :
            /\ met[h].raw.t = "str"
            /\ \A g \in 1..(h - 1) : ~RejectedIn(a, met, g)

(* a step of parse_args *)
ParseStep == pc # "idle" \/ pc' # "idle"

(* C25: a step of parse_args, to a result or to a failure, leaves the names  *)
(* of the arguments and their order, the settings of the parser and every    *)
(* attribute of every argument but the choices as they were; the choices of  *)
(* the argument being parsed become their lowercased form when it is not     *)
(* case sensitive and meets a string value, and are left as they were        *)
(* otherwise; choices that were lowercased are their own lowercased form.    *)
C25_ParseKeepsDeclarations ==
    [][ParseStep =>
          /\ NamesOf(args') = NamesOf(args)
          /\ UNCHANGED <<trim, store_missing, bundle_errors>>
          /\ \A k \in 1..Len(args) :
                /\ [args'[k] EXCEPT !.choices = args[k].choices] = args[k]
                /\ args'[k].choices =
                      IF /\ pc = "loop" /\ k = idx
                         /\ ~args[k].case_sensitive
                         /\ MeetsString(args[k], req)
                      THEN Lowercased(args[k].choices)
                      ELSE args[k].choices
                /\ ~args[k].case_sensitive =>
                      Lowercased(Lowercased(args[k].choices)) = Lowercased(args[k].choices)]_vars

(* after the parse of foo=BAT against the choices ['BAT'] without case      *)
(* sensitivity the choices are ['bat'], all else is as declared             *)
C25_Witness ==
    /\ pc = "done"
    /\ Len(args) = 1
    /\ req = Query(<< <<foo, Str(BAT)>>, <<baz, Str(bat)>> >>)
    /\ args[1] = [Argument(foo, [choices |-> <<Str(BAT)>>, case_sensitive |-> FALSE])
                    EXCEPT !.choices = <<Str(bat)>>]
    /\ outcome.kind = "result"

(* parse_args on a parser whose arguments are as: what the call gives when *)
(* no other call is made on the parser                                     *)
RECURSIVE AloneFrom(_, _, _, _, _, _)
AloneFrom(as, k, r, s, bundle, st) ==
    IF k > Len(as)
    THEN IF st.errors # <<>>
         THEN abort(400, "Input payload validation failed", st.errors)
         ELSE IF s /\ st.unparsed # <<>>
         THEN [kind |-> "BadRequest",
               description |-> <<"Unknown arguments: ">> \o Listing(st.unparsed)]
         ELSE [kind |-> "result", result |-> st.result]
    ELSE Then(parse(as[k], r, st.unparsed, BUNDLE_ERRORS, bundle), LAMBDA p :
            IF p.ret.kind = "abort" THEN p.ret
            ELSE LET isError == p.ret.value.t = "ValueError"
                     found == ~isError /\ p.ret.found.b
                 IN  AloneFrom(as, k + 1, r, s, bundle,
                        [errors |-> IF isError THEN DictUpdate(st.errors, p.ret.found.d)
                                    ELSE st.errors,
                         result |-> IF found \/ as[k].store_missing
                                    THEN DictSet(st.result, KeyOf(as[k]), p.ret.value)
                                    ELSE st.result,
                         unparsed |-> p.unparsed]))

ParsedAlone(as, r, s) ==
    AloneFrom(as, 1, r, s, bundle_errors,
              [errors |-> <<>>, result |-> <<>>,
               unparsed |-> IF s THEN DictKeys(source(Argument(<<>>, NoKwargs), r))
                            ELSE <<>>])

(* C26 as stated: whatever calls of parse_args were made on the parser      *)
(* before or are under way, a call ends with the result or the failure that *)
(* the parse of its request gives on a parser just built with the same      *)
(* declarations.                                                            *)
C26_Original ==
    pc = "done" => outcome = ParsedAlone(declared, req, strict)

(* C26, for parsers without folded choices: the same, when no argument with *)
(* choices is declared with case_sensitive=False.                           *)
C26_UnlessChoicesFolded ==
    (/\ pc = "done"
     /\ \A k \in 1..Len(declared) :
           declared[k].case_sensitive \/ declared[k].choices = <<>>) =>
        outcome = ParsedAlone(declared, req, strict)

(* a call has ended with its result while the other call, of another       *)
(* request, is between its two arguments                                   *)
C26_Witness ==
    /\ pc = "done"
    /\ outcome.kind = "result"
    /\ outcome = ParsedAlone(declared, req, strict)
    /\ Len(declared) = 2
    /\ declared[1].case_sensitive
    /\ declared[1].choices # <<>>
    /\ suspended.pc = "loop"
    /\ suspended.idx = 2
    /\ suspended.req # req

(* the message of a missing required argument *)
MissingMessage(a) ==
    (IF a.help.t = "str" THEN a.help.s \o <<" ">> ELSE <<>>)
    \o <<"Missing required parameter in ">> \o JoinedWithOr(FriendlyNames(a))

ReportedMissing(ret, a) ==
    IsFailure(ret) /\ FailureErrors(ret) = << <<a.name, MissingMessage(a)>> >>

(* C27 as stated: the parse of an argument fails with 'Missing required      *)
(* parameter' only when the argument is required and its source has none of  *)
(* its keys.                                                                 *)
C27_Original ==
    \A k \in 1..Len(returns) :
        ReportedMissing(returns[k].ret, returns[k].arg) =>
            /\ returns[k].arg.required
            /\ Met(returns[k].arg, req) = <<>>

(* C27, with the values skipped under ignore=True counted as absent: the     *)
(* parse of an argument fails with 'Missing required parameter' only when    *)
(* the argument is required and its source has none of its keys, or the      *)
(* argument has ignore=True and the conversion of every value under its keys *)
(* fails; a required argument that meets a value which converts never gets   *)
(* that failure.                                                             *)
C27_MissingOnlyWithoutValue ==
    \A k \in 1..Len(returns) :
        LET a == returns[k].arg
            met == Met(a, req)
        IN  ReportedMissing(returns[k].ret, a) =>
                /\ a.required
                /\ \/ met = <<>>
                   \/ a.ignore /\ \A h \in 1..Len(met) : ~CoercedOf(a, met[h]).ok

(* a required argument with ignore=True met a value that converts and the  *)
(* parse returned its result                                               *)
C27_Witness ==
    /\ pc = "done"
    /\ Len(returns) = 1
    /\ returns[1].arg.required
    /\ returns[1].arg.ignore
    /\ Met(returns[1].arg, req) # <<>>
    /\ CoercedOf(returns[1].arg, Met(returns[1].arg, req)[1]).ok
    /\ outcome.kind = "result"

(* the places of the names among the events, and the events of the k-th   *)
(* argument: those after the name before it, up to its own name            *)
NamePlaces == {p \in 1..Len(resolved) : IsName(resolved[p])}

PlaceOf(k) == CHOOSE p \in NamePlaces : Cardinality({q \in NamePlaces : q <= p}) = k

EventsOf(k) ==
    SubSeq(resolved, IF k = 1 THEN 1 ELSE PlaceOf(k - 1) + 1,
           IF k <= Cardinality(NamePlaces) THEN PlaceOf(k) - 1 ELSE Len(resolved))

(* every location started and completed, one after the other *)
OneByOne(tags) ==
    [p \in 1..(2 * Len(tags)) |->
        IF p % 2 = 1 THEN <<"start", tags[(p + 1) \div 2]>> ELSE <<"done", tags[p \div 2]>>]

IsPrefix(front, whole) ==
    Len(front) <= Len(whole) /\ front = SubSeq(whole, 1, Len(front))

(* C28: in a parse_args call the arguments are parsed one at a time in the   *)
(* order of their insertion and the locations of an argument are resolved    *)
(* one at a time in their declared order: a location is started when the one *)
(* before it has completed, an argument is parsed when its last location has *)
(* completed, and the first location of the next argument is started when    *)
(* the parse of the argument before it has returned.                         *)
C28_Sequential ==
    pc \in {"loop", "done"} =>
        LET parsed == Cardinality(NamePlaces) IN
        /\ parsed = Len(returns)
        /\ parsed <= Len(args)
        /\ \A k \in 1..parsed :
              /\ resolved[PlaceOf(k)] = args[k].name
              /\ EventsOf(k) = OneByOne(args[k].location.tags)
        /\ IF parsed < Len(args) /\ pc = "loop"
           THEN IsPrefix(EventsOf(parsed + 1), OneByOne(args[parsed + 1].location.tags))
           ELSE EventsOf(parsed + 1) = <<>>

(* foo of ('json', 'values') is parsed and the second of the three          *)
(* locations of bar is awaited                                              *)
C28_Witness ==
    /\ pc = "loop"
    /\ Len(args) = 2
    /\ Len(returns) = 1
    /\ resolved = << <<"start", "json">>, <<"done", "json">>, <<"start", "values">>,
                     <<"done", "values">>, foo, <<"start", "headers">>,
                     <<"done", "headers">>, <<"start", "values">> >>

(* the sequence without its k-th element *)
Without(as, k) == [j \in 1..(Len(as) - 1) |-> IF j < k THEN as[j] ELSE as[j + 1]]

(* the arguments that have a fragment in the schema *)
Documented == SelectSeq(args, LAMBDA arg : ~Argument__schema__(arg).none)

(* C29: the fragments of parser.__schema__ and the arguments parsed in a call *)
(* follow the order of the arguments: add_argument puts a new name after the  *)
(* present ones, replace_argument keeps the names and their order and every   *)
(* argument of another name, and remove_argument takes out the named argument *)
(* and leaves the others as they were, in their order.                        *)
C29_RegistryOrder ==
    /\ [](/\ (pc = "idle" /\ derived # <<>> /\ LastDerived.kind = "return") =>
                [k \in 1..Len(LastDerived.params) |-> LastDerived.params[k].name]
                    = NamesOf(Documented)
          /\ pc \in {"loop", "done"} => NamesOf([k \in 1..Len(returns) |-> returns[k].arg])
                                           = NamesUpTo(Len(returns)))
    /\ [][/\ \A d \in SchemaDeclarations :
                (add_argument(d[1], d[2], FALSE) /\ d[1] \notin ArgNames) =>
                    /\ SubSeq(args', 1, Len(args)) = args
                    /\ NamesOf(args') = Append(NamesOf(args), d[1])
          /\ \A d \in SchemaDeclarations :
                (replace_argument(d[1], d[2]) /\ d[1] \in ArgNames) =>
                    /\ NamesOf(args') = NamesOf(args)
                    /\ \A k \in 1..Len(args) : args[k].name # d[1] => args'[k] = args[k]
                    /\ args'[Position(d[1])] = _init_argument(Argument(d[1], d[2]), d[2])
          /\ \A name \in {foo, bar, baz} :
                (remove_argument(name) /\ name \in ArgNames) =>
                    args' = Without(args, Position(name))]_vars

(* the schema of a parser of baz and foo, in that order, which a call of    *)
(* replace_argument or remove_argument leaves or restores                   *)
C29_Witness ==
    /\ pc = "idle"
    /\ NamesOf(args) = <<baz, foo>>
    /\ args[2].type = "int" /\ args[2].choices # <<>>
    /\ derived # <<>>
    /\ LastDerived.kind = "return"
    /\ Len(LastDerived.params) = 2
    /\ LastDerived.params[1].name = baz
    /\ LastDerived.params[2].name = foo

(* the arguments parsed in the call that gave a failure or a bundled error *)
FailedInCall == {k \in 1..Len(returns) : IsFailure(returns[k].ret)}

(* C30: a strict call on a request that makes an argument fail validation   *)
(* and has a key that no argument claims ends in the validation failure,    *)
(* with the errors mapping; the unknown-arguments failure comes when every  *)
(* argument was parsed and none gave an error, and the result when neither  *)
(* failure occurred.                                                        *)
C30_ValidationBeforeUnknown ==
    pc = "done" =>
        /\ (strict /\ Unclaimed # {} /\ \E k \in 1..Len(args) : Fails(ArgAt(k), req)) =>
              /\ outcome.kind = "abort"
              /\ outcome.status = 400
              /\ outcome.errors # <<>>
              /\ FailedInCall # {}
        /\ outcome.kind = "BadRequest" =>
              /\ strict
              /\ unparsed # <<>>
              /\ Len(returns) = Len(args)
              /\ FailedInCall = {}
              /\ errors = <<>>
        /\ outcome.kind = "result" =>
              /\ Len(returns) = Len(args)
              /\ FailedInCall = {}
              /\ errors = <<>>
              /\ strict => unparsed = <<>>

(* errors are bundled, both arguments were parsed, one of them failed and   *)
(* an unclaimed key is left in the strict record: the validation failure    *)
C30_Witness ==
    /\ pc = "done"
    /\ strict
    /\ Len(args) = 2
    /\ Len(returns) = 2
    /\ FailedInCall # {}
    /\ Unclaimed # {}
    /\ unparsed # <<>>
    /\ outcome.kind = "abort"
    /\ outcome.message = "Input payload validation failed"

====
